---- MODULE Spec2Model ----
(***************************************************************************)
(* Model of the StockFolio backend (liatma/TrainingCur):                   *)
(*   - backend/services/stock_service.py : the quote cache                 *)
(*   - backend/routes/api.py             : asset / transaction handlers    *)
(*   - backend/database.py               : the indexes of the store        *)
(*   - migrate_transactions.py           : the import script               *)
(*                                                                         *)
(* Text the code manipulates (symbols, names, exchanges) is a sequence of  *)
(* one-character strings, so that upper() and strip() are computed.        *)
(* Money is an integer number of thousandths; round(x, 2) rounds it to a   *)
(* multiple of 10.  Time is an integer number of seconds.                  *)
(***************************************************************************)
EXTENDS Integers, Sequences, FiniteSets, TLC

VARIABLES
    cache,      \* stock_service._cache : symbol -> [data, timestamp]
    now,        \* the wall clock read by time.time()
    last,       \* history: the most recent call of get_stock_info
    okAt,       \* history: symbol -> start time of the call whose fetch last succeeded
    keyOrigin,  \* history: symbol -> the raw argument of the call that wrote the entry
    assets,         \* db.assets : the set of asset documents
    transactions,   \* db.transactions : the set of transaction documents
    nextAssetId,    \* the next _id db.assets hands out
    nextTxnId,      \* the next _id db.transactions hands out
    req,            \* the requests in flight: slot -> handler position and locals
    mig,            \* the run of migrate_transactions.py: position and locals
    reply,          \* history: the response of the request that completed last
    started,        \* history: the number of requests received so far
    deletedOk,      \* history: ids of the assets delete_asset reported deleted
    view            \* history: what the valuation page rendered last was given

cacheVars == <<cache, now, last, okAt, keyOrigin>>

storeVars ==
    <<assets, transactions, nextAssetId, nextTxnId, req, mig, reply, started, deletedOk>>

vars == <<cache, now, last, okAt, keyOrigin,
          assets, transactions, nextAssetId, nextTxnId, req, mig, reply, started,
          deletedOk, view>>

-----------------------------------------------------------------------------
(* Bounds of the model *)

MaxTicks == 4

\* documents db.assets and db.transactions accept in one run
MaxAssets == 3

MaxTxns == 2

\* requests the server receives in one run
MaxRequests == 3

\* requests the server handles at the same time
NumRequests == 2

\* the clock moves in steps of 100 seconds
MaxTime == 100 * MaxTicks

TickSteps == {100, 200}

FetchDurations == {0, 100}

-----------------------------------------------------------------------------
(* Text *)

LowerCase == <<"a", "b", "c", "d", "e", "f", "g", "h", "i", "j", "k", "l", "m",
               "n", "o", "p", "q", "r", "s", "t", "u", "v", "w", "x", "y", "z">>

UpperCase == <<"A", "B", "C", "D", "E", "F", "G", "H", "I", "J", "K", "L", "M",
               "N", "O", "P", "Q", "R", "S", "T", "U", "V", "W", "X", "Y", "Z">>

Whitespace == {" ", "\t", "\n"}

upper_char(ch) ==
    IF \E i \in 1..Len(LowerCase) : LowerCase[i] = ch
    THEN UpperCase[CHOOSE i \in 1..Len(LowerCase) : LowerCase[i] = ch]
    ELSE ch

\* str.upper()
upper(s) == [i \in 1..Len(s) |-> upper_char(s[i])]

RECURSIVE lstrip(_)
lstrip(s) == IF s # <<>> /\ Head(s) \in Whitespace THEN lstrip(Tail(s)) ELSE s

RECURSIVE rstrip(_)
rstrip(s) ==
    IF s # <<>> /\ s[Len(s)] \in Whitespace
    THEN rstrip(SubSeq(s, 1, Len(s) - 1))
    ELSE s

\* str.strip()
strip(s) == rstrip(lstrip(s))

\* symbol.upper().strip()   (stock_service.py:38, api.py:42, migrate_transactions.py:117)
normalize_symbol_UpperOnly(raw) == upper(raw)

normalize_symbol(raw) == strip(upper(raw))

NA == <<"N", "/", "A">>

USD == <<"U", "S", "D">>

NASDAQ == <<"N", "A", "S", "D", "A", "Q">>

NYSE == <<"N", "Y", "S", "E">>

NMS == <<"N", "M", "S">>

NYQ == <<"N", "Y", "Q">>

XETRA == <<"G", "E", "R">>

ACME == <<"A", "c", "m", "e">>

NoText == <<>>

-----------------------------------------------------------------------------
(* Numbers *)

\* round(x, 2) on a value held in thousandths (ties to even, as Python rounds)
round2(x) ==
    LET q == x \div 10
        r == x % 10
    IN  IF r < 5 THEN 10 * q
        ELSE IF r > 5 THEN 10 * (q + 1)
        ELSE IF q % 2 = 0 THEN 10 * q ELSE 10 * (q + 1)

-----------------------------------------------------------------------------
(* stock_service.py *)

CACHE_TTL_SECONDS == 300

EXCHANGE_MAP ==
    { <<NMS, NASDAQ>>, <<<<"N", "G", "M">>, NASDAQ>>, <<<<"N", "C", "M">>, NASDAQ>>,
      <<NYQ, NYSE>>, <<<<"N", "Y", "S">>, NYSE>>,
      <<<<"P", "C", "X">>, <<"N", "Y", "S", "E", " ", "A", "R", "C", "A">>>>,
      <<<<"B", "T", "S">>, <<"B", "A", "T", "S">>>>,
      <<<<"A", "S", "E">>,
        <<"N", "Y", "S", "E", " ", "A", "m", "e", "r", "i", "c", "a", "n">>>>,
      <<<<"L", "S", "E">>, <<"L", "o", "n", "d", "o", "n">>>>,
      <<<<"T", "Y", "O">>, <<"T", "o", "k", "y", "o">>>> }

\* _friendly_exchange: EXCHANGE_MAP.get(code, code)
friendly_exchange(code) ==
    IF \E p \in EXCHANGE_MAP : p[1] = code
    THEN (CHOOSE p \in EXCHANGE_MAP : p[1] = code)[2]
    ELSE code

\* x or default, for text ("" and None are both falsy)
OrText(x, default) == IF x = NoText THEN default ELSE x

(* What the market-data source answers to one yf.Ticker(symbol) use.        *)
(*   raises     : ticker.fast_info (or a read of it) raises                 *)
(*   fast       : the fast_info fields; 0 / NoText stand for a missing or   *)
(*                None value (the code reads each with "or default")        *)
(*   infoRaises : ticker.info raises                                        *)
(*   info       : the .info fields; NoText / "None" stand for a missing key *)
FastQuoted ==
    [lastPrice |-> 120456, previousClose |-> 100000, exchange |-> NMS,
     currency |-> USD, dayHigh |-> 121000, dayLow |-> 99500, marketCap |-> 5000000]

FastUnpriced ==
    [lastPrice |-> 0, previousClose |-> 0, exchange |-> NoText,
     currency |-> NoText, dayHigh |-> 0, dayLow |-> 0, marketCap |-> 0]

InfoFull ==
    [shortName |-> ACME, longName |-> ACME, sector |-> <<"T", "e", "c", "h">>,
     recommendationKey |-> "buy", targetMeanPrice |-> 130000,
     numberOfAnalystOpinions |-> 7, details |-> "company details"]

InfoBare ==
    [shortName |-> NoText, longName |-> NoText, sector |-> NA,
     recommendationKey |-> "None", targetMeanPrice |-> 0,
     numberOfAnalystOpinions |-> 0, details |-> "None"]

RespQuoted ==
    [raises |-> FALSE, error |-> "", fast |-> FastQuoted,
     infoRaises |-> FALSE, info |-> InfoFull]

RespUnpriced ==
    [raises |-> FALSE, error |-> "", fast |-> FastUnpriced,
     infoRaises |-> FALSE, info |-> InfoBare]

RespNoInfo ==
    [raises |-> FALSE, error |-> "", fast |-> FastQuoted,
     infoRaises |-> TRUE, info |-> InfoBare]

RespRaise ==
    [raises |-> TRUE, error |-> "HTTP Error 404", fast |-> FastUnpriced,
     infoRaises |-> TRUE, info |-> InfoBare]

Responses == {RespQuoted, RespUnpriced, RespNoInfo, RespRaise}

\* the symbols callers pass to get_stock_info
RawSymbols == { <<"a", " ">>, <<" ", "A">>, <<"b">> }

\* lines 63-68
change_amount(fi) ==
    IF fi.previousClose # 0 /\ fi.lastPrice # 0
    THEN fi.lastPrice - fi.previousClose
    ELSE 0

\* (change_amount / previous_close) * 100, in thousandths
change_percent(fi) ==
    IF fi.previousClose # 0 /\ fi.lastPrice # 0
    THEN ((fi.lastPrice - fi.previousClose) * 100 * 1000) \div fi.previousClose
    ELSE 0

\* lines 70-110: the metadata read from ticker.info, or its defaults when it raises
metadata(symbol, resp) ==
    IF resp.infoRaises
    THEN [name |-> symbol, sector |-> NA, long_name |-> symbol,
          recommendation_key |-> "None", target_mean_price |-> 0,
          number_of_analyst_opinions |-> 0, details |-> "None"]
    ELSE LET info == resp.info
             name == IF info.shortName # NoText THEN info.shortName
                     ELSE OrText(info.longName, symbol)
         IN  [name |-> name, sector |-> info.sector,
              long_name |-> OrText(info.longName, name),
              recommendation_key |-> info.recommendationKey,
              target_mean_price |-> info.targetMeanPrice,
              number_of_analyst_opinions |-> info.numberOfAnalystOpinions,
              details |-> info.details]

\* lines 112-152: the quote built from a fetch that did not raise
quote_data(symbol, resp) ==
    LET fi == resp.fast
        md == metadata(symbol, resp)
    IN  [symbol |-> symbol,
         name |-> md.name,
         exchange |-> friendly_exchange(OrText(fi.exchange, NA)),
         currency |-> OrText(fi.currency, USD),
         current_price |-> round2(fi.lastPrice),
         previous_close |-> round2(fi.previousClose),
         change_amount |-> round2(change_amount(fi)),
         change_percent |-> round2(change_percent(fi)),
         day_high |-> round2(fi.dayHigh),
         day_low |-> round2(fi.dayLow),
         market_cap |-> fi.marketCap,
         sector |-> md.sector,
         success |-> TRUE,
         error |-> "",
         long_name |-> md.long_name,
         recommendation_key |-> md.recommendation_key,
         target_mean_price |-> md.target_mean_price,
         number_of_analyst_opinions |-> md.number_of_analyst_opinions,
         details |-> md.details]

\* lines 160-200: the quote returned when the fetch raises
zero_quote(symbol, e) ==
    [symbol |-> symbol, name |-> symbol, exchange |-> NA, currency |-> USD,
     current_price |-> 0, previous_close |-> 0, change_amount |-> 0,
     change_percent |-> 0, day_high |-> 0, day_low |-> 0, market_cap |-> 0,
     sector |-> NA, success |-> FALSE, error |-> e, long_name |-> symbol,
     recommendation_key |-> "None", target_mean_price |-> 0,
     number_of_analyst_opinions |-> 0, details |-> "None"]

\* lines 159-160: what the except branch returns; it never reads _cache
on_fetch_failure_StaleFallback(c, symbol, e) ==
    IF symbol \in DOMAIN c THEN c[symbol].data ELSE zero_quote(symbol, e)

on_fetch_failure_Unflagged(c, symbol, e) ==
    [zero_quote(symbol, e) EXCEPT !.success = TRUE, !.current_price = 1000]

on_fetch_failure(c, symbol, e) == zero_quote(symbol, e)

\* lines 41-42: cached and (time.time() - cached["timestamp"]) < CACHE_TTL_SECONDS
is_fresh_Minutes(c, symbol, t) ==
    symbol \in DOMAIN c /\ (t - c[symbol].timestamp) < 5

is_fresh_Inclusive(c, symbol, t) ==
    symbol \in DOMAIN c /\ (t - c[symbol].timestamp) <= CACHE_TTL_SECONDS

is_fresh(c, symbol, t) ==
    symbol \in DOMAIN c /\ (t - c[symbol].timestamp) < CACHE_TTL_SECONDS

\* line 155: _cache[symbol] = {"data": data, "timestamp": time.time()}
\* t0 is the clock at the cache check, t1 the clock after the fetch
cache_store_CheckTime(c, symbol, data, t0, t1) ==
    (symbol :> [data |-> data, timestamp |-> t0]) @@ c

cache_store_Only(c, symbol, data, t0, t1) ==
    (symbol :> [data |-> data, timestamp |-> t1])

cache_store_CompleteOnly(c, symbol, data, t0, t1) ==
    IF data.name = symbol /\ data.sector = NA THEN c
    ELSE (symbol :> [data |-> data, timestamp |-> t1]) @@ c

cache_store_EveryKey(c, symbol, data, t0, t1) ==
    [k \in DOMAIN c \cup {symbol} |-> [data |-> data, timestamp |-> t1]]

cache_store(c, symbol, data, t0, t1) ==
    (symbol :> [data |-> data, timestamp |-> t1]) @@ c

\* lines 159-160: the except branch leaves _cache alone
cache_on_failure_Poison(c, symbol, data, t1) ==
    (symbol :> [data |-> data, timestamp |-> t1]) @@ c

cache_on_failure_Evict(c, symbol, data, t1) ==
    [k \in DOMAIN c \ {symbol} |-> c[k]]

cache_on_failure(c, symbol, data, t1) == c

(* get_stock_info(symbol) run on cache c with the clock at t, the source     *)
(* answering resp after d seconds.  The result holds the returned quote, the *)
(* cache and the clock afterwards, and the number of fetches issued.         *)
get_stock_info(c, raw, t, resp, d) ==
    LET symbol == normalize_symbol(raw) IN
    IF is_fresh(c, symbol, t)
    THEN [symbol |-> symbol, data |-> c[symbol].data, cache |-> c,
          now |-> t, fetches |-> 0, outcome |-> "hit"]
    ELSE IF resp.raises
    THEN LET data == on_fetch_failure(c, symbol, resp.error)
         IN  [symbol |-> symbol, data |-> data,
              cache |-> cache_on_failure(c, symbol, data, t + d),
              now |-> t + d, fetches |-> 1, outcome |-> "raise"]
    ELSE LET data == quote_data(symbol, resp)
         IN  [symbol |-> symbol, data |-> data,
              cache |-> cache_store(c, symbol, data, t, t + d),
              now |-> t + d, fetches |-> 1, outcome |-> "ok"]

\* lines 203-220
lookup_symbol_AnySuccess(info) ==
    IF info.success
    THEN [found |-> TRUE, symbol |-> info.symbol, name |-> info.name,
          exchange |-> info.exchange, current_price |-> info.current_price,
          currency |-> info.currency]
    ELSE [found |-> FALSE, symbol |-> NoText, name |-> NoText,
          exchange |-> NoText, current_price |-> 0, currency |-> NoText]

lookup_symbol(info) ==
    IF info.success /\ info.current_price > 0
    THEN [found |-> TRUE, symbol |-> info.symbol, name |-> info.name,
          exchange |-> info.exchange, current_price |-> info.current_price,
          currency |-> info.currency]
    ELSE [found |-> FALSE, symbol |-> NoText, name |-> NoText,
          exchange |-> NoText, current_price |-> 0, currency |-> NoText]

-----------------------------------------------------------------------------
(* History of the calls *)

NoCall ==
    [op |-> "none", raw |-> NoText, symbol |-> NoText, at |-> 0, resp |-> RespRaise,
     hadEntry |-> FALSE, entry |-> [data |-> zero_quote(NoText, ""), timestamp |-> 0],
     origin |-> NoText, okBefore |-> -1,
     ret |-> zero_quote(NoText, ""), fetches |-> 0, outcome |-> "none", doneAt |-> 0]

TimeOf(f, k) == IF k \in DOMAIN f THEN f[k] ELSE -1

\* the effect of one call of get_stock_info on the cache, the clock and the history
CallGetStockInfo(raw, resp, d) ==
    \E r \in {get_stock_info(cache, raw, now, resp, d)} :
        LET symbol == r.symbol
            had == symbol \in DOMAIN cache
        IN  /\ r.now <= MaxTime
            /\ cache' = r.cache
            /\ now' = r.now
            /\ okAt' = IF r.outcome = "ok" THEN (symbol :> now) @@ okAt ELSE okAt
            /\ keyOrigin' = IF r.cache # cache THEN (symbol :> raw) @@ keyOrigin
                            ELSE keyOrigin
            /\ last' = [op |-> "get_stock_info", raw |-> raw, symbol |-> symbol,
                        at |-> now,
                        resp |-> IF r.fetches > 0 THEN resp ELSE NoCall.resp,
                        hadEntry |-> had,
                        entry |-> IF had THEN cache[symbol] ELSE NoCall.entry,
                        origin |-> IF symbol \in DOMAIN keyOrigin
                                   THEN keyOrigin[symbol] ELSE NoText,
                        okBefore |-> TimeOf(okAt, symbol),
                        ret |-> r.data, fetches |-> r.fetches,
                        outcome |-> r.outcome, doneAt |-> r.now]

-----------------------------------------------------------------------------
(* The document store and the requests *)

\* db.users: the registered users; a session names one of them or nobody
Users == {"u1", "u2"}

Sessions == Users \cup {"anonymous"}

\* auth.py get_current_user: the user of the session, "" for None
get_current_user(session) == IF session \in Users THEN session ELSE ""

Slots == 1..NumRequests

\* JSON bodies of POST /assets: name and exchange as the caller sends them
AssetBodies ==
    { [name |-> NoText, exchange |-> NoText],
      [name |-> <<" ", "M", "y">>, exchange |-> <<"n", "y", "s", "e", " ">>],
      [name |-> <<" ", "M", "y">>, exchange |-> NoText],
      [name |-> <<" ">>, exchange |-> <<"n", "y", "s", "e", " ">>] }

NoBody ==
    [transaction_type |-> NoText, price_per_unit |-> 0, quantity |-> 0,
     fees |-> 0, credit |-> 0, purchase_date |-> NoText, notes |-> ""]

\* JSON bodies of POST /assets/{id}/transactions (numbers in thousandths)
TxnBodies ==
    { [transaction_type |-> <<"P", "u", "r", "c", "h", "a", "s", "e", " ">>,
       price_per_unit |-> 100000, quantity |-> 10000, fees |-> 5000,
       credit |-> 0, purchase_date |-> <<"2", "0", "2", "4", "-", "0", "1", "-", "1", "5">>, notes |-> ""],
      [transaction_type |-> <<"p", "u", "r", "c", "h", "a", "s", "e">>,
       price_per_unit |-> 100000, quantity |-> 0, fees |-> 0,
       credit |-> 0, purchase_date |-> <<"2", "0", "2", "4", "-", "0", "1", "-", "1", "5">>, notes |-> ""],
      [transaction_type |-> <<"d", "i", "v", "i", "d", "e", "n", "d">>,
       price_per_unit |-> 0, quantity |-> 0, fees |-> 0,
       credit |-> 50000, purchase_date |-> <<"2", "0", "2", "4", "-", "0", "2", "-", "0", "1">>, notes |-> ""],
      [transaction_type |-> <<"d", "i", "v", "i", "d", "e", "n", "d">>,
       price_per_unit |-> 0, quantity |-> 0, fees |-> 0,
       credit |-> 0, purchase_date |-> <<"2", "0", "2", "4", "-", "0", "2", "-", "0", "1">>, notes |-> ""],
      [transaction_type |-> <<"p", "u", "r", "c", "h", "a", "s", "e">>,
       price_per_unit |-> 100000, quantity |-> 10000, fees |-> -5000,
       credit |-> 0, purchase_date |-> <<"2", "0", "2", "4", "-", "0", "1", "-", "1", "5">>, notes |-> ""],
      [transaction_type |-> <<"s", "a", "l", "e">>,
       price_per_unit |-> 100000, quantity |-> 10000, fees |-> 0,
       credit |-> 0, purchase_date |-> <<"2", "0", "2", "4", "-", "0", "3", "-", "0", "1">>, notes |-> ""] }

LowerOf(ch) ==
    IF \E i \in 1..Len(UpperCase) : UpperCase[i] = ch
    THEN LowerCase[CHOOSE i \in 1..Len(UpperCase) : UpperCase[i] = ch]
    ELSE ch

\* str.lower()
lower(s) == [i \in 1..Len(s) |-> LowerOf(s[i])]

PURCHASE == <<"p", "u", "r", "c", "h", "a", "s", "e">>

DIVIDEND == <<"d", "i", "v", "i", "d", "e", "n", "d">>

STOCK == <<"s", "t", "o", "c", "k">>

ETF == <<"e", "t", "f">>

\* create_asset before line 51: lookup_symbol has not been called
NoLookup == [called |-> FALSE]

\* the locals of a handler; lookup holds what lookup_symbol read and returned
IdleReq ==
    [pc |-> "idle", op |-> "none", user |-> "", symbol |-> NoText, name |-> NoText,
     exchange |-> NoText, asset_id |-> 0, txn_id |-> 0, body |-> NoBody,
     lookup |-> NoLookup]

\* a response: the handler, the HTTP status and the id it names
Reply(op, status, id) == [op |-> op, status |-> status, id |-> id]

NoReply == Reply("none", 0, 0)

Free(p) == req[p].pc = "idle" /\ started < MaxRequests

\* the request of slot p ends with this response
Respond(p, op, status, id) ==
    /\ req' = [req EXCEPT ![p] = IdleReq]
    /\ reply' = Reply(op, status, id)

\* find_one({"user_id": user, "symbol": symbol}) on db.assets
find_asset_by_symbol(as, user, symbol) ==
    {a \in as : a.user_id = user /\ a.symbol = symbol}

\* find_one({"_id": ObjectId(asset_id), "user_id": user}) on db.assets
find_owned_asset_AnyUser(as, asset_id, user) ==
    {a \in as : a.id = asset_id}

find_owned_asset(as, asset_id, user) ==
    {a \in as : a.id = asset_id /\ a.user_id = user}

\* api.py lines 50-58: name and exchange after the optional lookup_symbol
\* info is the result of lookup_symbol
fill_metadata_LookupWins(symbol, name, exchange, info) ==
    IF info.found
    THEN [name |-> info.name, exchange |-> info.exchange]
    ELSE [name |-> OrText(name, symbol), exchange |-> OrText(exchange, NA)]

fill_metadata(symbol, name, exchange, info) ==
    IF info.found
    THEN [name |-> OrText(name, info.name), exchange |-> OrText(exchange, info.exchange)]
    ELSE [name |-> OrText(name, symbol), exchange |-> OrText(exchange, NA)]

\* one call of get_stock_info by a handler: the cache and the clock change
UseQuoteCache(r) ==
    /\ cache' = r.cache
    /\ now' = r.now
    /\ UNCHANGED <<last, okAt, keyOrigin, view>>

(* create_asset, api.py lines 37-58: authentication, the body, the lookup.   *)
(* lookup_symbol is synchronous: its use of the quote cache is one step.     *)
(* The request comes from one of sessions, with a symbol of raws and a body  *)
(* of bodies; the market-data source answers one of resps.                   *)
CreateAssetBegin(p, sessions, raws, bodies, resps) ==
    /\ Free(p)
    /\ \E session \in sessions, raw \in raws, body \in bodies :
          LET user == get_current_user(session)
              symbol == normalize_symbol(raw)
              name == strip(body.name)
              exchange == strip(body.exchange)
          IN  IF user = ""
              THEN /\ Respond(p, "create_asset", 401, 0)
                   /\ UNCHANGED <<cacheVars, view>>
              ELSE IF symbol = NoText
              THEN /\ Respond(p, "create_asset", 400, 0)
                   /\ UNCHANGED <<cacheVars, view>>
              ELSE IF name = NoText \/ exchange = NoText
              THEN \E resp \in resps :
                   \E r \in {get_stock_info(cache, symbol, now, resp, 0)} :
                      /\ UseQuoteCache(r)
                      /\ LET md == fill_metadata(symbol, name, exchange,
                                                 lookup_symbol(r.data))
                         IN  req' = [req EXCEPT ![p] =
                                 [IdleReq EXCEPT !.pc = "ca_find", !.op = "create_asset",
                                                 !.user = user, !.symbol = symbol,
                                                 !.name = md.name,
                                                 !.exchange = md.exchange,
                                                 !.body = body,
                                                 !.lookup =
                                                    [called |-> TRUE, quote |-> r.data,
                                                     info |-> lookup_symbol(r.data)]]]
                      /\ UNCHANGED reply
              ELSE /\ req' = [req EXCEPT ![p] =
                          [IdleReq EXCEPT !.pc = "ca_find", !.op = "create_asset",
                                          !.user = user, !.symbol = symbol,
                                          !.name = name, !.exchange = exchange,
                                          !.body = body]]
                   /\ UNCHANGED reply
                   /\ UNCHANGED <<cacheVars, view>>
    /\ UNCHANGED <<assets, transactions, nextAssetId, nextTxnId, mig, deletedOk>>
    /\ started' = started + 1

\* lines 62-70: the duplicate check
CreateAssetFind(p) ==
    /\ req[p].pc = "ca_find"
    /\ IF find_asset_by_symbol(assets, req[p].user, req[p].symbol) # {}
       THEN Respond(p, "create_asset", 400, 0)
       ELSE req' = [req EXCEPT ![p].pc = "ca_insert"] /\ UNCHANGED reply
    /\ UNCHANGED <<assets, transactions, nextAssetId, nextTxnId, mig, started, deletedOk>>
    /\ UNCHANGED <<cacheVars, view>>

\* database.py lines 19-22: only users.username is a unique index; the index
\* on assets (user_id, symbol) is not, so insert_one accepts every document
insert_asset(as, doc) == as \cup {doc}

\* lines 72-88: insert_one and the success reply
CreateAssetInsert(p) ==
    /\ req[p].pc = "ca_insert"
    /\ nextAssetId <= MaxAssets
    /\ assets' = insert_asset(assets,
          [id |-> nextAssetId, user_id |-> req[p].user, symbol |-> req[p].symbol,
           name |-> req[p].name, exchange |-> req[p].exchange,
           asset_type |-> STOCK, created_at |-> now])
    /\ nextAssetId' = nextAssetId + 1
    /\ Respond(p, "create_asset", 200, nextAssetId)
    /\ UNCHANGED <<transactions, nextTxnId, mig, started, deletedOk>>
    /\ UNCHANGED <<cacheVars, view>>

\* delete_asset, lines 94-105: authentication and the ownership check
DeleteAssetRequest(p, session, asset_id) ==
    /\ Free(p)
    /\    LET user == get_current_user(session) IN
          IF user = ""
          THEN Respond(p, "delete_asset", 401, 0)
          ELSE IF find_owned_asset(assets, asset_id, user) = {}
          THEN Respond(p, "delete_asset", 404, 0)
          ELSE /\ req' = [req EXCEPT ![p] =
                      [IdleReq EXCEPT !.pc = "da_delete_many", !.op = "delete_asset",
                                      !.user = user, !.asset_id = asset_id]]
               /\ UNCHANGED reply
    /\ UNCHANGED <<assets, transactions, nextAssetId, nextTxnId, mig, deletedOk>>
    /\ started' = started + 1
    /\ UNCHANGED <<cacheVars, view>>

DeleteAssetFind(p, sessions) ==
    \E session \in sessions, asset_id \in 1..MaxAssets :
        DeleteAssetRequest(p, session, asset_id)

\* line 108: delete_many({"asset_id": asset_id})
DeleteAssetTransactions(p) ==
    /\ req[p].pc = "da_delete_many"
    /\ transactions' = {t \in transactions : t.asset_id # req[p].asset_id}
    /\ req' = [req EXCEPT ![p].pc = "da_delete_one"]
    /\ UNCHANGED <<assets, nextAssetId, nextTxnId, mig, reply, started, deletedOk>>
    /\ UNCHANGED <<cacheVars, view>>

\* lines 111-113: delete_one({"_id": ObjectId(asset_id)}) and the success reply
DeleteAssetDocument(p) ==
    /\ req[p].pc = "da_delete_one"
    /\ assets' = {a \in assets : a.id # req[p].asset_id}
    /\ deletedOk' = deletedOk \cup {req[p].asset_id}
    /\ Respond(p, "delete_asset", 200, req[p].asset_id)
    /\ UNCHANGED <<transactions, nextAssetId, nextTxnId, mig, started>>
    /\ UNCHANGED <<cacheVars, view>>

\* lines 145-167: the fields of the document, or rejected
\* price_per_unit * quantity is a product of two numbers held in thousandths
transaction_fields(body) ==
    LET transaction_type == lower(strip(body.transaction_type)) IN
    IF transaction_type \notin {PURCHASE, DIVIDEND}
    THEN [ok |-> FALSE, doc |-> NoBody]
    ELSE IF transaction_type = PURCHASE
    THEN IF body.price_per_unit <= 0 \/ body.quantity <= 0
         THEN [ok |-> FALSE, doc |-> NoBody]
         ELSE [ok |-> TRUE,
               doc |-> [transaction_type |-> transaction_type,
                        price_per_unit |-> body.price_per_unit,
                        quantity |-> body.quantity,
                        purchase_date |-> body.purchase_date,
                        fees |-> body.fees,
                        debit |-> round2((body.price_per_unit * body.quantity) \div 1000
                                         + body.fees),
                        credit |-> 0,
                        notes |-> body.notes]]
    ELSE IF body.credit <= 0
         THEN [ok |-> FALSE, doc |-> NoBody]
         ELSE [ok |-> TRUE,
               doc |-> [transaction_type |-> transaction_type,
                        price_per_unit |-> 0, quantity |-> 0,
                        purchase_date |-> body.purchase_date,
                        fees |-> 0, debit |-> 0, credit |-> body.credit,
                        notes |-> body.notes]]

\* create_transaction, lines 121-167: authentication, ownership, validation
CreateTransactionRequest(p, session, asset_id, body) ==
    /\ Free(p)
    /\    LET user == get_current_user(session) IN
          IF user = ""
          THEN Respond(p, "create_transaction", 401, 0)
          ELSE IF find_owned_asset(assets, asset_id, user) = {}
          THEN Respond(p, "create_transaction", 404, 0)
          ELSE IF ~transaction_fields(body).ok
          THEN Respond(p, "create_transaction", 400, 0)
          ELSE /\ req' = [req EXCEPT ![p] =
                      [IdleReq EXCEPT !.pc = "ct_insert", !.op = "create_transaction",
                                      !.user = user, !.asset_id = asset_id,
                                      !.body = body]]
               /\ UNCHANGED reply
    /\ UNCHANGED <<assets, transactions, nextAssetId, nextTxnId, mig, deletedOk>>
    /\ started' = started + 1
    /\ UNCHANGED <<cacheVars, view>>

CreateTransactionFind(p, sessions, bodies) ==
    \E session \in sessions, asset_id \in 1..MaxAssets, body \in bodies :
        CreateTransactionRequest(p, session, asset_id, body)

\* lines 169-186: insert_one and the success reply; db.transactions has no
\* reference to db.assets that the store enforces
insert_transaction_PerAsset(txns, as, doc) ==
    {t \in txns : t.asset_id # doc.asset_id} \cup {doc}

insert_transaction(txns, as, doc) == txns \cup {doc}

CreateTransactionInsert(p) ==
    /\ req[p].pc = "ct_insert"
    /\ nextTxnId <= MaxTxns
    /\ LET f == transaction_fields(req[p].body).doc IN
       transactions' = insert_transaction(transactions, assets,
          [id |-> nextTxnId, asset_id |-> req[p].asset_id,
           transaction_type |-> f.transaction_type,
           price_per_unit |-> f.price_per_unit, quantity |-> f.quantity,
           purchase_date |-> f.purchase_date, fees |-> f.fees,
           debit |-> f.debit, credit |-> f.credit, notes |-> f.notes,
           created_at |-> now])
    /\ nextTxnId' = nextTxnId + 1
    /\ Respond(p, "create_transaction", 200, nextTxnId)
    /\ UNCHANGED <<assets, nextAssetId, mig, started, deletedOk>>
    /\ UNCHANGED <<cacheVars, view>>

\* delete_transaction, lines 192-203: authentication and the ownership check
DeleteTransactionRequest(p, session, asset_id, txn_id) ==
    /\ Free(p)
    /\    LET user == get_current_user(session) IN
          IF user = ""
          THEN Respond(p, "delete_transaction", 401, 0)
          ELSE IF find_owned_asset(assets, asset_id, user) = {}
          THEN Respond(p, "delete_transaction", 404, 0)
          ELSE /\ req' = [req EXCEPT ![p] =
                      [IdleReq EXCEPT !.pc = "dt_delete", !.op = "delete_transaction",
                                      !.user = user, !.asset_id = asset_id,
                                      !.txn_id = txn_id]]
               /\ UNCHANGED reply
    /\ UNCHANGED <<assets, transactions, nextAssetId, nextTxnId, mig, deletedOk>>
    /\ started' = started + 1
    /\ UNCHANGED <<cacheVars, view>>

DeleteTransactionFind(p, sessions) ==
    \E session \in sessions, asset_id \in 1..MaxAssets, txn_id \in 1..MaxTxns :
        DeleteTransactionRequest(p, session, asset_id, txn_id)

\* lines 206-212: delete_one({"_id": ObjectId(transaction_id), "asset_id": asset_id})
DeleteTransactionDocument(p) ==
    /\ req[p].pc = "dt_delete"
    /\ LET hit == {t \in transactions :
                      t.id = req[p].txn_id /\ t.asset_id = req[p].asset_id}
       IN  /\ transactions' = transactions \ hit
           /\ Respond(p, "delete_transaction", IF hit = {} THEN 404 ELSE 200,
                      req[p].txn_id)
    /\ UNCHANGED <<assets, nextAssetId, nextTxnId, mig, started, deletedOk>>
    /\ UNCHANGED <<cacheVars, view>>

-----------------------------------------------------------------------------
(* migrate_transactions.py *)

Digits == <<"0", "1", "2", "3", "4", "5", "6", "7", "8", "9">>

DigitValue(ch) == (CHOOSE i \in 1..10 : Digits[i] = ch) - 1

\* str.split("-")
RECURSIVE split_dash(_)
split_dash(s) ==
    IF \A i \in 1..Len(s) : s[i] # "-"
    THEN <<s>>
    ELSE LET i == CHOOSE n \in 1..Len(s) :
                     s[n] = "-" /\ \A m \in 1..(n - 1) : s[m] # "-"
         IN  <<SubSeq(s, 1, i - 1)>> \o split_dash(SubSeq(s, i + 1, Len(s)))

\* int(part) for a part made of digits
RECURSIVE to_int(_)
to_int(part) ==
    IF part = <<>> THEN 0
    ELSE 10 * to_int(SubSeq(part, 1, Len(part) - 1)) + DigitValue(part[Len(part)])

RECURSIVE digits_of(_)
digits_of(n) ==
    IF n < 10 THEN <<Digits[n + 1]>>
    ELSE digits_of(n \div 10) \o <<Digits[(n % 10) + 1]>>

RECURSIVE zero_pad(_, _)
zero_pad(text, width) ==
    IF Len(text) >= width THEN text ELSE zero_pad(<<"0">> \o text, width)

\* f"{n:04d}", f"{n:02d}"
format_int(n, width) == zero_pad(digits_of(n), width)

\* lines 56-61
normalize_date(raw) ==
    LET parts == split_dash(raw) IN
    IF Len(parts) = 3
    THEN format_int(to_int(parts[1]), 4) \o <<"-">>
            \o format_int(to_int(parts[2]), 2) \o <<"-">>
            \o format_int(to_int(parts[3]), 2)
    ELSE raw

\* line 50
ASSET_TYPE_MAP(src_type) ==
    IF src_type = "S" THEN STOCK ELSE IF src_type = "E" THEN ETF ELSE STOCK

\* line 53
TXN_TYPE_MAP(src_type) ==
    IF src_type = "P" THEN PURCHASE ELSE IF src_type = "D" THEN DIVIDEND ELSE PURCHASE

\* the documents of the BSON dump (numbers in thousandths)
Dump ==
    << [Symbol |-> <<"b">>, AssetType |-> "E", TransactionType |-> "D",
        Date |-> <<"2", "0", "2", "3", "-", "7", "-", "3">>,
        Fees |-> 1500, Debit |-> 0, Credit |-> 12345,
        AssetPriceOnAction |-> 0, StockCount |-> 0],
       [Symbol |-> <<" ", "a">>, AssetType |-> "S", TransactionType |-> "P",
        Date |-> <<"2", "0", "2", "3", "-", "0", "7", "-", "0", "3">>,
        Fees |-> 1000, Debit |-> 101000, Credit |-> 0,
        AssetPriceOnAction |-> 100000, StockCount |-> 1000] >>

\* the usernames the script is started with
MigrationTargets == {"u1", "nobody"}

\* order of the characters, as Python compares them
CharOrder == <<" ">> \o Digits \o UpperCase \o LowerCase

CharRank(ch) == CHOOSE i \in 1..Len(CharOrder) : CharOrder[i] = ch

RECURSIVE text_less(_, _)
text_less(a, b) ==
    IF a = <<>> THEN b # <<>>
    ELSE IF b = <<>> THEN FALSE
    ELSE IF Head(a) = Head(b) THEN text_less(Tail(a), Tail(b))
    ELSE CharRank(Head(a)) < CharRank(Head(b))

\* sorted(...) of a set of texts
RECURSIVE sorted_texts(_)
sorted_texts(S) ==
    IF S = {} THEN <<>>
    ELSE LET m == CHOOSE x \in S : \A y \in S \ {x} : text_less(x, y)
         IN  <<m>> \o sorted_texts(S \ {m})

\* lines 115-119 and 125: the symbols of the dump, sorted; AssetType of the first
\* document of each
dump_symbols(docs) ==
    sorted_texts({normalize_symbol(docs[i].Symbol) : i \in 1..Len(docs)} \ {NoText})

dump_asset_type(docs, sym) ==
    docs[CHOOSE i \in 1..Len(docs) :
            /\ normalize_symbol(docs[i].Symbol) = sym
            /\ \A j \in 1..(i - 1) : normalize_symbol(docs[j].Symbol) # sym].AssetType

\* lines 64-73; the script is a process of its own, so its _cache starts empty
lookup_asset_info(symbol, resp) ==
    LET info == lookup_symbol(get_stock_info(<<>>, symbol, 0, resp, 0).data) IN
    IF info.found
    THEN [name |-> info.name, exchange |-> info.exchange]
    ELSE [name |-> symbol, exchange |-> NA]

\* lines 157-186: the transaction document of one dump document
\* (round(x, 4) changes no number with three decimals)
migrated_transaction(doc, asset_id) ==
    LET txn_type == TXN_TYPE_MAP(doc.TransactionType)
        dividend == txn_type = DIVIDEND
    IN  [asset_id |-> asset_id,
         transaction_type |-> txn_type,
         price_per_unit |-> IF dividend THEN 0 ELSE doc.AssetPriceOnAction,
         quantity |-> IF dividend THEN 0 ELSE doc.StockCount,
         purchase_date |-> normalize_date(doc.Date),
         fees |-> round2(doc.Fees),
         debit |-> IF dividend THEN 0 ELSE round2(doc.Debit),
         credit |-> round2(doc.Credit),
         notes |-> ""]

\* lines 148-187: the documents to insert, in dump order
RECURSIVE transactions_to_insert(_, _, _)
transactions_to_insert(docs, ids, first_id) ==
    IF docs = <<>> THEN {}
    ELSE LET sym == normalize_symbol(Head(docs).Symbol) IN
         IF sym \notin DOMAIN ids
         THEN transactions_to_insert(Tail(docs), ids, first_id)
         ELSE {[id |-> first_id] @@ migrated_transaction(Head(docs), ids[sym])}
                \cup transactions_to_insert(Tail(docs), ids, first_id + 1)

IdleMig == [pc |-> "idle", user |-> "", i |-> 0, ids |-> <<>>]

\* lines 94-108: the target user is looked up, then the dump is read
MigrateBegin(targets) ==
    /\ mig.pc = "idle"
    /\ \E target \in targets :
          IF target \in Users
          THEN mig' = [IdleMig EXCEPT !.pc = "clear", !.user = target]
          ELSE mig' = [IdleMig EXCEPT !.pc = "done"]
    /\ UNCHANGED <<assets, transactions, nextAssetId, nextTxnId, req, reply, started, deletedOk>>
    /\ UNCHANGED <<cacheVars, view>>

\* line 111: delete_many({}) on db.transactions
MigrateClear ==
    /\ mig.pc = "clear"
    /\ transactions' = {}
    /\ mig' = [mig EXCEPT !.pc = IF dump_symbols(Dump) = <<>> THEN "insert_many"
                                 ELSE "asset_find",
                          !.i = 1]
    /\ UNCHANGED <<assets, nextAssetId, nextTxnId, req, reply, started, deletedOk>>
    /\ UNCHANGED <<cacheVars, view>>

MigrateAdvance(m) ==
    IF m.i >= Len(dump_symbols(Dump))
    THEN [m EXCEPT !.pc = "insert_many"]
    ELSE [m EXCEPT !.pc = "asset_find", !.i = m.i + 1]

\* lines 126-129: find_one({"user_id": user_id, "symbol": sym})
MigrateAssetFind ==
    /\ mig.pc = "asset_find"
    /\ LET sym == dump_symbols(Dump)[mig.i]
           found == find_asset_by_symbol(assets, mig.user, sym)
       IN  IF found = {}
           THEN mig' = [mig EXCEPT !.pc = "asset_insert"]
           ELSE \E a \in found :
                    mig' = MigrateAdvance([mig EXCEPT !.ids = (sym :> a.id) @@ mig.ids])
    /\ UNCHANGED <<assets, transactions, nextAssetId, nextTxnId, req, reply, started, deletedOk>>
    /\ UNCHANGED <<cacheVars, view>>

\* lines 131-143: lookup_asset_info, then insert_one
MigrateAssetInsert(resps) ==
    /\ mig.pc = "asset_insert"
    /\ nextAssetId <= MaxAssets
    /\ \E resp \in resps :
          LET sym == dump_symbols(Dump)[mig.i]
              info == lookup_asset_info(sym, resp)
          IN  /\ assets' = insert_asset(assets,
                    [id |-> nextAssetId, user_id |-> mig.user, symbol |-> sym,
                     name |-> info.name, exchange |-> info.exchange,
                     asset_type |-> ASSET_TYPE_MAP(dump_asset_type(Dump, sym)),
                     created_at |-> now])
              /\ mig' = MigrateAdvance([mig EXCEPT !.ids = (sym :> nextAssetId) @@ mig.ids])
    /\ nextAssetId' = nextAssetId + 1
    /\ UNCHANGED <<transactions, nextTxnId, req, reply, started, deletedOk>>
    /\ UNCHANGED <<cacheVars, view>>

\* lines 189-193: insert_many, one ordered batch
MigrateInsertTransactions ==
    /\ mig.pc = "insert_many"
    /\ LET docs == transactions_to_insert(Dump, mig.ids, nextTxnId) IN
          /\ nextTxnId + Cardinality(docs) - 1 <= MaxTxns
          /\ transactions' = transactions \cup
                {d @@ [created_at |-> now] : d \in docs}
          /\ nextTxnId' = nextTxnId + Cardinality(docs)
    /\ mig' = [mig EXCEPT !.pc = "done"]
    /\ UNCHANGED <<assets, nextAssetId, req, reply, started, deletedOk>>
    /\ UNCHANGED <<cacheVars, view>>

-----------------------------------------------------------------------------
(* page_routes.py: the valuation of an asset and of the portfolio *)

\* dict.get(key, default) on a stored document
Get(doc, key, default) == IF key \in DOMAIN doc THEN doc[key] ELSE default

\* a * b for two amounts held in thousandths (exact for the amounts used here)
mul(a, b) == (a * b) \div 1000

\* the sum of F[x] over the documents x of S
RECURSIVE SumOver(_, _)
SumOver(F, S) ==
    IF S = {} THEN 0
    ELSE LET x == CHOOSE y \in S : TRUE IN F[x] + SumOver(F, S \ {x})

IsDigits(part) ==
    \A i \in 1..Len(part) : \E n \in 1..10 : Digits[n] = part[i]

is_leap(y) == (y % 4 = 0 /\ y % 100 # 0) \/ y % 400 = 0

days_in_month(y, m) ==
    IF m = 2 THEN (IF is_leap(y) THEN 29 ELSE 28)
    ELSE IF m \in {4, 6, 9, 11} THEN 30 ELSE 31

\* datetime.date(y, m, d).toordinal(), up to a constant
toordinal(y, m, d) ==
    LET yy == IF m <= 2 THEN y - 1 ELSE y
        era == yy \div 400
        yoe == yy - era * 400
        mp == (m + 9) % 12
        doy == (153 * mp + 2) \div 5 + d - 1
        doe == yoe * 365 + yoe \div 4 - yoe \div 100 + doy
    IN  era * 146097 + doe

\* datetime.datetime.strptime(pd, "%Y-%m-%d").date(): four digits of year, one
\* or two of month and of day, a day the month has; anything else is ValueError
strptime_date(pd) ==
    LET parts == split_dash(pd)
        shaped == /\ Len(parts) = 3
                  /\ \A i \in 1..3 : IsDigits(parts[i])
                  /\ Len(parts[1]) = 4
                  /\ Len(parts[2]) \in {1, 2}
                  /\ Len(parts[3]) \in {1, 2}
    IN  IF ~shaped THEN [ok |-> FALSE, day |-> 0]
        ELSE LET y == to_int(parts[1])
                 m == to_int(parts[2])
                 d == to_int(parts[3])
             IN  IF y >= 1 /\ m \in 1..12 /\ d >= 1 /\ d <= days_in_month(y, m)
                 THEN [ok |-> TRUE, day |-> toordinal(y, m, d)]
                 ELSE [ok |-> FALSE, day |-> 0]

\* lines 31-44: the purchase dates that are there and parse
purchase_dates(purchases) ==
    LET parsed == { strptime_date(p.purchase_date) :
                      p \in { q \in purchases : "purchase_date" \in DOMAIN q } }
    IN  { d.day : d \in { e \in parsed : e.ok } }

Min(S) == CHOOSE x \in S : \A y \in S : x <= y

\* round(n / d, 2) for n / d in thousandths, d > 0 (ties to even)
round2_ratio(n, d) ==
    LET k == n \div (10 * d)
        r == n - k * 10 * d
    IN  IF 2 * r < 10 * d THEN 10 * k
        ELSE IF 2 * r > 10 * d THEN 10 * (k + 1)
        ELSE IF k % 2 = 0 THEN 10 * k ELSE 10 * (k + 1)

\* an Optional[float] is None or a value
None == [none |-> TRUE]
Value(x) == [value |-> x]

\* _compute_profit_periods(purchases, total_profit) with date.today() = today
compute_profit_periods_LatestDate(purchases, total_profit, today) ==
    LET dates == purchase_dates(purchases) IN
    IF dates = {} THEN [profit_per_month |-> None, profit_per_year |-> None]
    ELSE LET holding_days == today - (CHOOSE x \in dates : \A y \in dates : x >= y) IN
         IF holding_days < 1
         THEN [profit_per_month |-> None, profit_per_year |-> None]
         ELSE LET per_month == round2_ratio(total_profit * 761, 25 * holding_days)
              IN  [profit_per_month |-> Value(per_month),
                   profit_per_year |-> Value(round2(per_month * 12))]

compute_profit_periods(purchases, total_profit, today) ==
    LET dates == purchase_dates(purchases) IN
    IF dates = {} THEN [profit_per_month |-> None, profit_per_year |-> None]
    ELSE LET holding_days == today - Min(dates) IN
         IF holding_days < 1
         THEN [profit_per_month |-> None, profit_per_year |-> None]
         \* total_profit / (holding_days / 30.44), with 30.44 = 761 / 25
         ELSE LET per_month == round2_ratio(total_profit * 761, 25 * holding_days)
              IN  [profit_per_month |-> Value(per_month),
                   profit_per_year |-> Value(round2(per_month * 12))]

\* lines 93-98
purchase_total_cost_DebitOnly(p) == Get(p, "debit", 0)

purchase_total_cost(p) ==
    IF "debit" \in DOMAIN p /\ p.debit > 0
    THEN p.debit
    ELSE mul(Get(p, "price_per_unit", 0), Get(p, "quantity", 0))

\* db.transactions.find({"transaction_type": "purchase", "asset_id": ...})
find_purchases(txns, asset_id) ==
    { t \in txns : /\ "transaction_type" \in DOMAIN t
                   /\ t.transaction_type = PURCHASE
                   /\ t.asset_id = asset_id }

\* lines 15-21
ANALYST_SCORE_MAP ==
    { <<"strong_buy", 1>>, <<"buy", 2>>, <<"hold", 3>>, <<"underperform", 4>>,
      <<"sell", 5>> }

\* lines 121-122 and 246-247; "None" and "" are the falsy labels
analyst_score_UnknownIsHold(stock_info) ==
    LET key == stock_info.recommendation_key IN
    IF key \in {"None", ""} THEN 99
    ELSE IF \E e \in ANALYST_SCORE_MAP : e[1] = key
    THEN (CHOOSE e \in ANALYST_SCORE_MAP : e[1] = key)[2]
    ELSE 3

analyst_score(stock_info) ==
    LET key == stock_info.recommendation_key IN
    IF key \in {"None", ""} THEN 99
    ELSE IF \E e \in ANALYST_SCORE_MAP : e[1] = key
    THEN (CHOOSE e \in ANALYST_SCORE_MAP : e[1] = key)[2]
    ELSE 99

\* lines 112-117 and 204-210: the totals of an asset, before rounding
asset_totals(purchases, stock_info) ==
    LET total_units == SumOver([p \in purchases |-> Get(p, "quantity", 0)], purchases)
        total_paid == SumOver([p \in purchases |-> purchase_total_cost(p)], purchases)
        current_price == stock_info.current_price
        total_value == mul(current_price, total_units)
        total_profit == total_value - total_paid
    IN  [total_units |-> total_units, total_paid |-> total_paid,
         current_price |-> current_price, total_value |-> total_value,
         total_profit |-> total_profit, is_gain |-> total_profit >= 0]

\* lines 213-228: one row of the purchase history
purchase_row(p, current_price) ==
    LET total_cost == purchase_total_cost(p)
        qty == Get(p, "quantity", 0)
        current_value == mul(current_price, qty)
        profit == current_value - total_cost
    IN  [id |-> p.id,
         price_per_unit |-> Get(p, "price_per_unit", 0),
         quantity |-> qty,
         total_cost |-> round2(total_cost),
         current_value |-> round2(current_value),
         profit |-> round2(profit),
         is_gain |-> profit >= 0]

\* lines 239-242
tv_symbol(asset_doc) ==
    LET exchange == upper(strip(asset_doc.exchange))
        symbol == strip(asset_doc.symbol)
    IN  IF exchange # NoText /\ symbol # NoText
        THEN exchange \o <<":">> \o symbol
        ELSE IF symbol # NoText THEN symbol
        ELSE NASDAQ \o <<":", "A", "A", "P", "L">>

\* lines 193-266: the context of the asset page, given the quote
asset_context(asset_doc, txns, stock_info, today) ==
    LET purchases == find_purchases(txns, asset_doc.id)
        t == asset_totals(purchases, stock_info)
        pp == compute_profit_periods(purchases, t.total_profit, today)
    IN  [id |-> asset_doc.id,
         symbol |-> asset_doc.symbol,
         purchases |-> { purchase_row(p, t.current_price) : p \in purchases },
         current_price |-> t.current_price,
         total_units |-> t.total_units,
         total_paid |-> round2(t.total_paid),
         total_value |-> round2(t.total_value),
         total_profit |-> round2(t.total_profit),
         is_gain |-> t.is_gain,
         tv_symbol |-> tv_symbol(asset_doc),
         profit_per_month |-> pp.profit_per_month,
         profit_per_year |-> pp.profit_per_year,
         analyst_score |-> analyst_score(stock_info)]

\* lines 101-143: the row of the dashboard table, given the quote
asset_dict_for_dashboard2(asset_doc, txns, stock_info, today) ==
    LET purchases == find_purchases(txns, asset_doc.id)
        t == asset_totals(purchases, stock_info)
        pp == compute_profit_periods(purchases, t.total_profit, today)
    IN  [id |-> asset_doc.id,
         symbol |-> asset_doc.symbol,
         total_units |-> t.total_units,
         total_paid |-> round2(t.total_paid),
         current_price |-> t.current_price,
         total_value |-> round2(t.total_value),
         total_profit |-> round2(t.total_profit),
         is_gain |-> t.is_gain,
         profit_per_month |-> pp.profit_per_month,
         profit_per_year |-> pp.profit_per_year,
         analyst_score |-> analyst_score(stock_info)]

\* lines 151-154: the rows in the order the store lists the assets, each with
\* its own get_stock_info; resps gives what the source answers per asset
RECURSIVE dashboard_assets(_, _, _, _, _, _)
dashboard_assets(docs, c, t, resps, txns, today) ==
    IF docs = <<>> THEN [rows |-> <<>>, cache |-> c, quotes |-> <<>>]
    ELSE LET r == get_stock_info(c, Head(docs).symbol, t, resps[Head(docs).id], 0)
             row == asset_dict_for_dashboard2(Head(docs), txns, r.data, today)
             rest == dashboard_assets(Tail(docs), r.cache, t, resps, txns, today)
         IN  [rows |-> <<row>> \o rest.rows, cache |-> rest.cache,
              quotes |-> <<r>> \o rest.quotes]

(* Python floats.  The totals of a row are floats holding a rounded amount;  *)
(* sum() adds them left to right in binary floating point (IEEE 754 double, *)
(* round to nearest, ties to even), which is not associative.  A float > 0  *)
(* is [e, m]: 53 bits m, the first one 1, worth 0.m x 2^e.  The amounts of  *)
(* the ledgers here are not negative.                                       *)
MantissaBits == 53

FloatZero == [e |-> 0, m |-> <<>>]

Zeros(n) == [i \in 1..n |-> 0]

\* the binary digits of i > 0, the first one 1; none for 0
IntBits(i) ==
    LET len == Cardinality({ k \in 0..30 : 2^k <= i })
    IN  SubSeq([k \in 1..len |-> (i \div 2^(len - k)) % 2], 1, len)

\* 2^k mod 1000 for k <= 72, in factors that fit
Pow2Mod(k) ==
    LET a == IF k < 24 THEN k ELSE 24
        b == IF k - a < 24 THEN k - a ELSE 24
        c == k - a - b
    IN  ((((2^a % 1000) * (2^b % 1000)) % 1000) * (2^c % 1000)) % 1000

\* what is left of r / 1000 after k binary digits
FracRem(r, k) == (r * Pow2Mod(k)) % 1000

\* the first k binary digits of r / 1000 after the point
FracBits(r, k) ==
    SubSeq([i \in 1..k |-> (2 * FracRem(r, i - 1)) \div 1000], 1, k)

LeadingZeros(bits) == Min({ i \in 1..Len(bits) : bits[i] = 1 }) - 1

\* the carry into place i of x + y: a place to the right makes one and every
\* place in between passes it on
CarryInto(x, y, i) ==
    \E j \in (i + 1)..Len(x) :
        /\ x[j] = 1 /\ y[j] = 1
        /\ \A k \in (i + 1)..(j - 1) : x[k] # y[k]

AddBits(x, y) ==
    SubSeq([i \in 1..(Len(x) + 1) |->
               IF i = 1 THEN (IF CarryInto(x, y, 0) THEN 1 ELSE 0)
               ELSE (x[i - 1] + y[i - 1] + (IF CarryInto(x, y, i - 1) THEN 1 ELSE 0)) % 2],
           1, Len(x) + 1)

\* bits (the first one 1, at least 54 of them) worth 0.bits x 2^e, rounded to
\* a float; sticky: digits that are not zero follow bits
RoundBits(bits, sticky, e) ==
    LET m == SubSeq(bits, 1, MantissaBits)
        guard == bits[MantissaBits + 1]
        rest == sticky \/ \E i \in (MantissaBits + 2)..Len(bits) : bits[i] = 1
        up == guard = 1 /\ (rest \/ m[MantissaBits] = 1)
        next == AddBits(m, Zeros(MantissaBits - 1) \o <<1>>)
    IN  IF ~up THEN [e |-> e, m |-> m]
        ELSE IF next[1] = 1 THEN [e |-> e + 1, m |-> SubSeq(next, 1, MantissaBits)]
        ELSE [e |-> e, m |-> Tail(next)]

\* the float nearest to n thousandths, n >= 0
float_of(n) ==
    IF n = 0 THEN FloatZero
    ELSE LET int == IntBits(n \div 1000)
             all == int \o FracBits(n % 1000, MantissaBits + 17)
             z == LeadingZeros(all)
         IN  RoundBits(SubSeq(all, z + 1, Len(all)),
                       FracRem(n % 1000, MantissaBits + 17) # 0, Len(int) - z)

\* a + b
float_add(a, b) ==
    IF a = FloatZero THEN b
    ELSE IF b = FloatZero THEN a
    ELSE LET hi == IF a.e >= b.e THEN a ELSE b
             lo == IF a.e >= b.e THEN b ELSE a
             d == hi.e - lo.e
         IN  IF d > MantissaBits + 2 THEN hi
             ELSE LET s == AddBits(hi.m \o Zeros(d), Zeros(d) \o lo.m)
                  IN  IF s[1] = 1 THEN RoundBits(s \o Zeros(2), FALSE, hi.e + 1)
                      ELSE RoundBits(Tail(s) \o Zeros(2), FALSE, hi.e)

\* x >= y for bit sequences of one length
BitsGe(x, y) ==
    \/ x = y
    \/ \E i \in 1..Len(x) : x[i] > y[i] /\ \A k \in 1..(i - 1) : x[k] = y[k]

\* a >= b, which is the sign test of the float a - b
float_ge(a, b) ==
    IF b = FloatZero THEN TRUE
    ELSE IF a = FloatZero THEN FALSE
    ELSE IF a.e # b.e THEN a.e > b.e
    ELSE BitsGe(a.m, b.m)

\* sum(a[field] for a in assets) as the float it is
RECURSIVE float_sum(_, _, _)
float_sum(rows, field, acc) ==
    IF rows = <<>> THEN acc
    ELSE float_sum(Tail(rows), field, float_add(acc, float_of(Head(rows)[field])))

\* sum(a[field] for a in assets)
RECURSIVE sum_field(_, _)
sum_field(rows, field) ==
    IF rows = <<>> THEN 0 ELSE Head(rows)[field] + sum_field(Tail(rows), field)

\* lines 156-172.  The rounded totals are the exact ones: the float sums are
\* within a few units in the last place of them.  portfolio_is_gain is the
\* sign of the difference of the two float sums before any rounding; totals
\* that differ by a thousandth or more are too far apart for the float sums
\* to compare otherwise, so only equal totals need the float sums.
portfolio_totals(rows) ==
    LET portfolio_invested == sum_field(rows, "total_paid")
        portfolio_value == sum_field(rows, "total_value")
        portfolio_profit == portfolio_value - portfolio_invested
    IN  [portfolio_invested |-> round2(portfolio_invested),
         portfolio_value |-> round2(portfolio_value),
         portfolio_profit |-> round2(portfolio_profit),
         portfolio_is_gain |->
             IF portfolio_profit # 0 THEN portfolio_profit > 0
             ELSE float_ge(float_sum(rows, "total_value", FloatZero),
                           float_sum(rows, "total_paid", FloatZero))]

NoView == [op |-> "none"]

-----------------------------------------------------------------------------
(* The quote cache on its own: callers and the clock *)

Init ==
    /\ cache = <<>>
    /\ now = 0
    /\ last = NoCall
    /\ okAt = <<>>
    /\ keyOrigin = <<>>
    /\ assets = {}
    /\ transactions = {}
    /\ nextAssetId = 1
    /\ nextTxnId = 1
    /\ req = [p \in Slots |-> IdleReq]
    /\ mig = IdleMig
    /\ reply = NoReply
    /\ started = 0
    /\ deletedOk = {}
    /\ view = NoView

\* GET /stock/{symbol} (api.py:25-29) and every other caller of get_stock_info
StockLookup ==
    \E raw \in RawSymbols, resp \in Responses, d \in FetchDurations :
        /\ CallGetStockInfo(raw, resp, d)
        /\ UNCHANGED <<storeVars, view>>

\* time passes between requests
Tick ==
    \E d \in TickSteps :
        /\ now + d <= MaxTime
        /\ now' = now + d
        /\ UNCHANGED <<cache, last, okAt, keyOrigin>>
        /\ UNCHANGED <<storeVars, view>>

NextCache == StockLookup \/ Tick

SpecCache == Init /\ [][NextCache]_vars

-----------------------------------------------------------------------------
(* The server handling requests while the import script runs *)

\* the requests and answers of this run: two users create assets of one symbol
\* spelt two ways; the first user also deletes assets and records transactions
StoreSessions == {"u1", "u2"}

StoreOwner == {"u1"}

StoreSymbols == { <<"a", " ">>, <<" ", "A">> }

StoreAssetBodies == { [name |-> NoText, exchange |-> NoText] }

StoreResponses == {RespQuoted}

StoreTxnBodies == {b \in TxnBodies : b.fees > 0 \/ b.quantity = 0}

CreateAsset ==
    \E p \in Slots :
        \/ CreateAssetBegin(p, StoreSessions, StoreSymbols, StoreAssetBodies,
                            StoreResponses)
        \/ CreateAssetFind(p)
        \/ CreateAssetInsert(p)

DeleteAsset ==
    \E p \in Slots :
        \/ DeleteAssetFind(p, StoreOwner)
        \/ DeleteAssetTransactions(p)
        \/ DeleteAssetDocument(p)

CreateTransaction ==
    \E p \in Slots :
        \/ CreateTransactionFind(p, StoreOwner, StoreTxnBodies)
        \/ CreateTransactionInsert(p)

DeleteTransaction ==
    \E p \in Slots :
        \/ DeleteTransactionFind(p, StoreOwner)
        \/ DeleteTransactionDocument(p)

Migrate ==
    \/ MigrateBegin(MigrationTargets)
    \/ MigrateClear
    \/ MigrateAssetFind
    \/ MigrateAssetInsert(StoreResponses)
    \/ MigrateInsertTransactions

NextStore == CreateAsset \/ DeleteAsset \/ CreateTransaction \/ DeleteTransaction \/ Migrate

SpecStore == Init /\ [][NextStore]_vars

\* the server alone
NextApi == CreateAsset \/ DeleteAsset \/ CreateTransaction \/ DeleteTransaction

SpecApi == Init /\ [][NextApi]_vars

\* create_asset with every session, body and answer of the market-data source
AssetSessions == {"u1", "anonymous"}

AssetSymbols == { <<"a", " ">>, <<"b">> }

\* the requests are handled one after another, in the first slot
CreateAnyAsset ==
    \E p \in {1} :
        \/ CreateAssetBegin(p, AssetSessions, AssetSymbols, AssetBodies, Responses)
        \/ CreateAssetFind(p)
        \/ CreateAssetInsert(p)

NextAssets == CreateAnyAsset

SpecAssets == Init /\ [][NextAssets]_vars

\* the writers of db.transactions, with every request body
CreateAnyTransaction ==
    \E p \in Slots :
        \/ CreateTransactionFind(p, StoreOwner, TxnBodies)
        \/ CreateTransactionInsert(p)

NextLedger == CreateAsset \/ CreateAnyTransaction \/ Migrate

SpecLedger == Init /\ [][NextLedger]_vars

-----------------------------------------------------------------------------
(* The valuation pages over a store that already holds a ledger *)

\* transactions one ledger holds at most
MaxLedger == 3

\* db.assets: two assets of u1 and one of u2, as create_asset stores them
StoredAssets ==
    { [id |-> 1, user_id |-> "u1", symbol |-> <<"A">>, name |-> ACME,
       exchange |-> NASDAQ, asset_type |-> STOCK, created_at |-> 0],
      [id |-> 2, user_id |-> "u1", symbol |-> <<"B">>, name |-> <<"B">>,
       exchange |-> NA, asset_type |-> ETF, created_at |-> 0],
      [id |-> 3, user_id |-> "u2", symbol |-> <<"A">>, name |-> ACME,
       exchange |-> NASDAQ, asset_type |-> STOCK, created_at |-> 0] }

(* db.transactions: documents as create_transaction and the migration write *)
(* them (a debit of 0 comes from a dump without Debit), and documents older  *)
(* than the transaction_type and debit fields.                                *)
LedgerDocs ==
    { [id |-> 1, asset_id |-> 1, transaction_type |-> PURCHASE,
       price_per_unit |-> 100000, quantity |-> 10000, fees |-> 5000,
       debit |-> 1005000, credit |-> 0, notes |-> "", created_at |-> 0,
       purchase_date |-> <<"2", "0", "2", "4", "-", "0", "1", "-", "1", "5">>],
      [id |-> 2, asset_id |-> 1, transaction_type |-> PURCHASE,
       price_per_unit |-> 50000, quantity |-> 2000, fees |-> 0,
       debit |-> 0, credit |-> 0, notes |-> "", created_at |-> 0,
       purchase_date |-> <<"2", "0", "2", "3", "-", "7", "-", "3">>],
      [id |-> 3, asset_id |-> 1, transaction_type |-> DIVIDEND,
       price_per_unit |-> 0, quantity |-> 0, fees |-> 0,
       debit |-> 0, credit |-> 50000, notes |-> "", created_at |-> 0,
       purchase_date |-> <<"2", "0", "2", "4", "-", "0", "2", "-", "0", "1">>],
      [id |-> 4, asset_id |-> 1,
       price_per_unit |-> 20000, quantity |-> 1000, notes |-> ""],
      [id |-> 5, asset_id |-> 2, transaction_type |-> PURCHASE,
       price_per_unit |-> 200000, quantity |-> 1000, fees |-> 0,
       debit |-> 200000, credit |-> 0, notes |-> "", created_at |-> 0,
       purchase_date |-> <<"2", "0", "2", "4", "-", "1", "3", "-", "0", "1">>],
      [id |-> 6, asset_id |-> 2, transaction_type |-> <<"b", "u", "y">>,
       price_per_unit |-> 10000, quantity |-> 3000, fees |-> 0,
       debit |-> 30000, credit |-> 0, notes |-> "", created_at |-> 0,
       purchase_date |-> <<"2", "0", "2", "4", "-", "0", "1", "-", "1", "6">>],
      [id |-> 7, asset_id |-> 2, transaction_type |-> PURCHASE,
       price_per_unit |-> 120470, quantity |-> 300, fees |-> 0,
       debit |-> 0, credit |-> 0, notes |-> "", created_at |-> 0,
       purchase_date |-> NoText] }

\* date.today() on the days the pages are asked for
Todays == { toordinal(2024, 1, 15), toordinal(2024, 1, 16), toordinal(2024, 2, 14) }

ValuationResponses == {RespQuoted, RespRaise}

InitValuation ==
    /\ cache = <<>>
    /\ now = 0
    /\ last = NoCall
    /\ okAt = <<>>
    /\ keyOrigin = <<>>
    /\ assets = StoredAssets
    /\ transactions \in { L \in SUBSET LedgerDocs : Cardinality(L) <= MaxLedger }
    /\ nextAssetId = 4
    /\ nextTxnId = 8
    /\ req = [p \in Slots |-> IdleReq]
    /\ mig = IdleMig
    /\ reply = NoReply
    /\ started = 0
    /\ deletedOk = {}
    /\ view = NoView

\* GET /dashboard/asset/{asset_id}: lines 269-278 with _load_asset_context
AssetDetailPageWith(resps) ==
    \E session \in Users, asset_id \in 1..3 :
        LET user == get_current_user(session)
            found == find_owned_asset(assets, asset_id, user)
        IN  /\ IF found = {}
               THEN /\ view' = [op |-> "asset_detail", found |-> FALSE,
                                user |-> user, asset_id |-> asset_id]
                    /\ UNCHANGED <<cache, now>>
               ELSE \E asset_doc \in found, resp \in resps,
                       today \in Todays :
                    \E r \in {get_stock_info(cache, asset_doc.symbol, now, resp, 0)} :
                       /\ cache' = r.cache
                       /\ now' = r.now
                       /\ view' = [op |-> "asset_detail", found |-> TRUE,
                                   user |-> user, asset_id |-> asset_id,
                                   today |-> today, outcome |-> r.outcome,
                                   stock_info |-> r.data,
                                   ctx |-> asset_context(asset_doc, transactions,
                                                         r.data, today)]
            /\ UNCHANGED <<last, okAt, keyOrigin, storeVars>>

AssetDetailPage == AssetDetailPageWith(ValuationResponses)

\* the orders in which find() may list the documents of S
Orders(S) ==
    { o \in [1..Cardinality(S) -> S] : \A i, j \in 1..Cardinality(S) :
                                           o[i] = o[j] => i = j }

\* GET /dashboard: lines 146-175
DashboardPage ==
    \E session \in Users, today \in Todays :
        LET user == get_current_user(session)
            mine == { a \in assets : a.user_id = user }
        IN  \E assets_docs \in Orders(mine),
               resps \in [{ a.id : a \in mine } -> ValuationResponses] :
            \E d \in {dashboard_assets(assets_docs, cache, now, resps,
                                       transactions, today)} :
               /\ cache' = d.cache
               /\ view' = [op |-> "dashboard", user |-> user, today |-> today,
                           assets |-> d.rows,
                           outcomes |-> [i \in 1..Len(d.quotes) |-> d.quotes[i].outcome],
                           totals |-> portfolio_totals(d.rows)]
               /\ UNCHANGED <<now, last, okAt, keyOrigin, storeVars>>

NextValuation == AssetDetailPage \/ DashboardPage

SpecValuation == InitValuation /\ [][NextValuation]_vars

-----------------------------------------------------------------------------
(* The handlers that take an asset id, asked by every session: the owner,    *)
(* the other user and nobody, on a store that holds assets of both users,    *)
(* one request after another                                                 *)

InitOwned ==
    /\ cache = <<>>
    /\ now = 0
    /\ last = NoCall
    /\ okAt = <<>>
    /\ keyOrigin = <<>>
    /\ assets = StoredAssets
    /\ transactions \in SUBSET { t \in LedgerDocs : t.id = 1 }
    /\ nextAssetId = 4
    /\ nextTxnId = 2
    /\ req = [p \in Slots |-> IdleReq]
    /\ mig = IdleMig
    /\ reply = NoReply
    /\ started = 0
    /\ deletedOk = {}
    /\ view = NoView

DeleteAnyAsset ==
    \E p \in {1} :
        \/ DeleteAssetFind(p, Sessions)
        \/ DeleteAssetTransactions(p)
        \/ DeleteAssetDocument(p)

CreateTransactionByAnyone ==
    \E p \in {1} :
        \/ CreateTransactionFind(p, Sessions, StoreTxnBodies)
        \/ CreateTransactionInsert(p)

DeleteAnyTransaction ==
    \E p \in {1} :
        \/ DeleteTransactionFind(p, Sessions)
        \/ DeleteTransactionDocument(p)

NextOwned == DeleteAnyAsset \/ CreateTransactionByAnyone \/ DeleteAnyTransaction

SpecOwned == InitOwned /\ [][NextOwned]_vars

-----------------------------------------------------------------------------
(* get_stock_info called by requests that overlap.  The handlers are         *)
(* coroutines and get_stock_info does not await, so one event loop runs the  *)
(* calls one after another; here a call is cut at its two reads of the       *)
(* market-data source and at its write of _cache, which covers those runs    *)
(* and the ones of handlers run in threads.                                  *)

\* what get_stock_info returns to the request that passed raw
QuoteReply(raw, data) ==
    [op |-> "get_stock_info", status |-> 200, id |-> 0, raw |-> raw, data |-> data]

\* lines 38-43: the symbol and the cache check
GetQuoteCheck(p, raws) ==
    /\ Free(p)
    /\ \E raw \in raws :
          LET symbol == normalize_symbol(raw) IN
          IF is_fresh(cache, symbol, now)
          THEN /\ reply' = QuoteReply(raw, cache[symbol].data)
               /\ UNCHANGED req
          ELSE /\ req' = [req EXCEPT ![p] =
                      [IdleReq EXCEPT !.pc = "gq_fetch", !.op = "get_stock_info",
                                      !.symbol = symbol,
                                      !.lookup = [called |-> FALSE, raw |-> raw]]]
               /\ UNCHANGED reply
    /\ started' = started + 1
    /\ UNCHANGED <<cacheVars, view>>
    /\ UNCHANGED <<assets, transactions, nextAssetId, nextTxnId, mig, deletedOk>>

\* lines 45-152 and 159-200: the source answers; the quote or the zero-quote
GetQuoteFetch(p, resps) ==
    /\ req[p].pc = "gq_fetch"
    /\ \E resp \in resps :
          IF resp.raises
          THEN \E data \in {on_fetch_failure(cache, req[p].symbol, resp.error)} :
                  /\ cache' = cache_on_failure(cache, req[p].symbol, data, now)
                  /\ req' = [req EXCEPT ![p] = IdleReq]
                  /\ reply' = QuoteReply(req[p].lookup.raw, data)
          ELSE /\ req' = [req EXCEPT ![p].pc = "gq_store",
                                     ![p].lookup =
                                        [called |-> FALSE, raw |-> req[p].lookup.raw,
                                         quote |-> quote_data(req[p].symbol, resp)]]
               /\ UNCHANGED <<cache, reply>>
    /\ UNCHANGED <<now, last, okAt, keyOrigin, view>>
    /\ UNCHANGED <<assets, transactions, nextAssetId, nextTxnId, mig, started, deletedOk>>

\* lines 154-157: the write of _cache and the return
GetQuoteStore(p) ==
    /\ req[p].pc = "gq_store"
    /\ cache' = cache_store(cache, req[p].symbol, req[p].lookup.quote, now, now)
    /\ req' = [req EXCEPT ![p] = IdleReq]
    /\ reply' = QuoteReply(req[p].lookup.raw, req[p].lookup.quote)
    /\ UNCHANGED <<now, last, okAt, keyOrigin, view>>
    /\ UNCHANGED <<assets, transactions, nextAssetId, nextTxnId, mig, started, deletedOk>>

\* the source quotes with or without .info, or raises
ConcurrentResponses == {RespQuoted, RespNoInfo, RespRaise}

GetQuote ==
    \E p \in Slots :
        \/ GetQuoteCheck(p, RawSymbols)
        \/ GetQuoteFetch(p, ConcurrentResponses)
        \/ GetQuoteStore(p)

NextConcurrent == GetQuote \/ Tick

SpecConcurrent == Init /\ [][NextConcurrent]_vars

-----------------------------------------------------------------------------
(* The asset page under every recommendation the market-data source may give *)

\* .info["recommendationKey"]: the five known labels, a missing one, an empty
\* one and two the score map does not hold
RecommendationKeys ==
    {"strong_buy", "buy", "hold", "underperform", "sell", "None", "",
     "outperform", "BUY"}

RecommendedResponses ==
    { [RespQuoted EXCEPT !.info.recommendationKey = key] : key \in RecommendationKeys }

InitAnalyst ==
    /\ cache = <<>>
    /\ now = 0
    /\ last = NoCall
    /\ okAt = <<>>
    /\ keyOrigin = <<>>
    /\ assets = StoredAssets
    /\ transactions = {}
    /\ nextAssetId = 4
    /\ nextTxnId = 8
    /\ req = [p \in Slots |-> IdleReq]
    /\ mig = IdleMig
    /\ reply = NoReply
    /\ started = 0
    /\ deletedOk = {}
    /\ view = NoView

AnalystPage == AssetDetailPageWith(RecommendedResponses \cup {RespRaise})

NextAnalyst == AnalystPage

SpecAnalyst == InitAnalyst /\ [][NextAnalyst]_vars

-----------------------------------------------------------------------------
(* The rollup of the dashboard on its own, over three per-asset valuations *)

\* total_paid and total_value of a valuation: 0.10, 0.20 or 0.30
RollupAmounts == {100, 200, 300}

RollupIds == 1..3

\* the valuations of three assets, as _asset_dict_for_dashboard2 returns them
InitRollup ==
    /\ cache = <<>>
    /\ now = 0
    /\ last = NoCall
    /\ okAt = <<>>
    /\ keyOrigin = <<>>
    /\ assets = {}
    /\ transactions = {}
    /\ nextAssetId = 1
    /\ nextTxnId = 1
    /\ req = [p \in Slots |-> IdleReq]
    /\ mig = IdleMig
    /\ reply = NoReply
    /\ started = 0
    /\ deletedOk = {}
    /\ \E paid, value \in [RollupIds -> RollupAmounts] :
          view = [op |-> "valuations",
                  valuations |-> { [id |-> i, total_paid |-> paid[i],
                                    total_value |-> value[i]] : i \in RollupIds }]

\* lines 156-159 over the valuations in one of their orders
Rollup ==
    /\ view.op \in {"valuations", "rollup"}
    /\ \E assets_list \in Orders(view.valuations) :
          view' = [op |-> "rollup", valuations |-> view.valuations,
                   assets |-> assets_list,
                   totals |-> portfolio_totals(assets_list)]
    /\ UNCHANGED <<cacheVars, storeVars>>

NextRollup == Rollup

SpecRollup == InitRollup /\ [][NextRollup]_vars

-----------------------------------------------------------------------------
(* Vocabulary of the quote-cache claims *)

Called == last.op = "get_stock_info"

\* a call of get_stock_info happens in this step
CallStep == last' # last

\* age of the entry the last call found, at the moment of its cache check
Age == last.at - last.entry.timestamp

FoundFresh == last.hadEntry /\ Age < CACHE_TTL_SECONDS

FoundStale == last.hadEntry /\ Age >= CACHE_TTL_SECONDS

IsZeroQuote(q, symbol) ==
    /\ q.success = FALSE
    /\ q.current_price = 0 /\ q.previous_close = 0
    /\ q.change_amount = 0 /\ q.change_percent = 0
    /\ q.day_high = 0 /\ q.day_low = 0 /\ q.market_cap = 0
    /\ q.symbol = symbol /\ q.name = symbol
    /\ q.exchange = <<"N", "/", "A">>
    /\ q.currency = <<"U", "S", "D">>
    /\ q.error # ""

IsLower(ch) == \E i \in 1..Len(LowerCase) : LowerCase[i] = ch

EqualIgnoringCase(a, b) ==
    a = b \/ \E i \in 1..Len(LowerCase) : {a, b} = {LowerCase[i], UpperCase[i]}

\* [i..j] is the part of s between its leading and trailing whitespace
IsCore(s, i, j) ==
    /\ \A n \in 1..Len(s) : (n < i \/ n > j) => s[n] \in Whitespace
    /\ i <= j => (s[i] \notin Whitespace /\ s[j] \notin Whitespace)
    /\ i > j => (i = 1 /\ j = 0)

\* k is raw without its surrounding whitespace and with its letters in upper case
IsUpperTrimmedOf(k, raw) ==
    \E i \in 1..(Len(raw) + 1), j \in 0..Len(raw) :
        /\ IsCore(raw, i, j)
        /\ Len(k) = j - i + 1
        /\ \A n \in 1..Len(k) :
              EqualIgnoringCase(k[n], raw[i + n - 1]) /\ ~IsLower(k[n])

\* r1 and r2 differ only in letter case or surrounding whitespace
SameSymbol(r1, r2) ==
    \E i1 \in 1..(Len(r1) + 1), j1 \in 0..Len(r1),
       i2 \in 1..(Len(r2) + 1), j2 \in 0..Len(r2) :
        /\ IsCore(r1, i1, j1) /\ IsCore(r2, i2, j2)
        /\ j1 - i1 = j2 - i2
        /\ \A n \in 0..(j1 - i1) : EqualIgnoringCase(r1[i1 + n], r2[i2 + n])

\* the characters of the requested symbols, in both cases
SymbolChars == {"a", "A", "b", "B", " "}

\* every text over those characters that is no longer than a requested symbol
SymbolTexts ==
    LET longest == CHOOSE n \in { Len(r) : r \in RawSymbols } :
                       \A r \in RawSymbols : Len(r) <= n
    IN  UNION { [1..n -> SymbolChars] : n \in 0..longest }

\* <<k, raw>> : k is the upper-case, trimmed form of the requested symbol raw
UpperTrimmed ==
    UNION { { <<k, raw>> : k \in { t \in SymbolTexts : IsUpperTrimmedOf(t, raw) } } :
            raw \in RawSymbols }

\* the pairs of requested spellings that name one symbol
OneSymbol ==
    UNION { { <<r1, r2>> : r2 \in { r \in RawSymbols : SameSymbol(r1, r) } } :
            r1 \in RawSymbols }

-----------------------------------------------------------------------------
(* C1: a call that finds an entry younger than the TTL returns that entry's  *)
(* data unchanged, fetches nothing and leaves the cache as it was.           *)
C1_FreshEntryServed ==
    [][ (CallStep /\ last'.hadEntry
            /\ last'.at - last'.entry.timestamp < CACHE_TTL_SECONDS)
        => /\ last'.ret = last'.entry.data
           /\ last'.fetches = 0
           /\ cache' = cache ]_vars

C1_Witness ==
    /\ Called /\ FoundFresh /\ Age > 0
    /\ last.fetches = 0 /\ last.ret.success

(* C2: an entry whose age is at least the TTL (exactly 300 s included) is    *)
(* never served without a fetch having been attempted in that call.          *)
C2_StaleNeverServedUnfetched ==
    (Called /\ FoundStale) => (last.fetches >= 1 /\ last.outcome # "hit")

C2_Witness ==
    Called /\ last.hadEntry /\ Age = CACHE_TTL_SECONDS /\ last.fetches = 1

(* C3: when the fetch raises the call returns the zero-quote, the zero-quote *)
(* is never stored in the cache, and every call that finds no fresh entry    *)
(* fetches again.                                                            *)
C3_FailureGivesUncachedZeroQuote ==
    /\ (Called /\ last.outcome = "raise") =>
          /\ IsZeroQuote(last.ret, last.symbol)
          /\ last.ret.error = last.resp.error
          /\ IF last.hadEntry
             THEN last.symbol \in DOMAIN cache /\ cache[last.symbol] = last.entry
             ELSE last.symbol \notin DOMAIN cache
    /\ \A k \in DOMAIN cache : cache[k].data.success
    /\ (Called /\ ~FoundFresh) => last.fetches = 1

C3_Witness ==
    /\ Called /\ last.outcome = "raise" /\ ~last.hadEntry
    /\ last.symbol \notin DOMAIN cache
    /\ cache # <<>>

(* C4 as stated: when the source fails for a symbol that has a cached quote, *)
(* even an expired one, that quote is returned; the zero-quote is returned   *)
(* only if nothing was ever cached for the symbol.                           *)
C4_StaleServedOnFailure ==
    (Called /\ last.outcome = "raise") =>
        IF last.hadEntry THEN last.ret = last.entry.data ELSE ~last.ret.success

(* C4 amended: when the source fails the zero-quote is returned whether or   *)
(* not an expired entry exists; a cached quote is returned only by a call    *)
(* that finds it fresh and does not fetch.                                   *)
C4_FailureAlwaysZeroQuote ==
    Called =>
        /\ last.outcome = "raise" =>
              (~last.ret.success /\ last.ret.current_price = 0
                 /\ (last.hadEntry => last.ret # last.entry.data))
        /\ last.fetches = 0 => (FoundFresh /\ last.ret = last.entry.data)

C4_Witness ==
    /\ Called /\ last.outcome = "raise"
    /\ FoundStale /\ last.entry.data.success
    /\ ~last.ret.success

(* C5: a failed fetch leaves the whole cache, the entry of the symbol and    *)
(* the entries of all other symbols, exactly as before the call.             *)
C5_FailureLeavesCache ==
    [][ (CallStep /\ last'.outcome = "raise") => cache' = cache ]_vars

C5_Witness ==
    /\ Called /\ last.outcome = "raise" /\ last.hadEntry
    /\ Cardinality(DOMAIN cache) = 2

(* C6 as stated: two calls for a symbol less than a TTL apart issue at most  *)
(* one fetch in total, and a call after expiry issues exactly one.           *)
C6_AtMostOneFetchPerWindow ==
    [][ CallStep =>
          /\ (Called /\ last'.symbol = last.symbol
                /\ last'.at - last.at < CACHE_TTL_SECONDS)
             => last.fetches + last'.fetches <= 1
          /\ (last'.hadEntry
                /\ last'.at - last'.entry.timestamp >= CACHE_TTL_SECONDS)
             => last'.fetches = 1 ]_vars

(* C6 amended: a call made less than a TTL after a call whose fetch          *)
(* succeeded issues no fetch (two calls in one window issue at most one      *)
(* successful fetch; a failed fetch is retried by the next call), and every  *)
(* call that finds no fresh entry issues exactly one fetch.                  *)
C6_AtMostOneSuccessfulFetchPerWindow ==
    Called =>
        /\ (last.okBefore >= 0 /\ last.at - last.okBefore < CACHE_TTL_SECONDS)
           => last.fetches = 0
        /\ FoundStale => last.fetches = 1
        /\ ~last.hadEntry => last.fetches = 1

C6_Witness ==
    /\ Called /\ last.okBefore >= 0
    /\ last.at - last.okBefore < CACHE_TTL_SECONDS
    /\ last.at > last.okBefore
    /\ last.fetches = 0

(* C7: on a miss or an expired entry, a successful fetch replaces the entry  *)
(* of the normalized symbol by {fetched data, timestamp = the clock at the   *)
(* store}, returns that data with success = true and changes no other entry. *)
C7_SuccessStoresEntry ==
    [][ (CallStep /\ last'.outcome = "ok") =>
          /\ ~(last'.hadEntry
                 /\ last'.at - last'.entry.timestamp < CACHE_TTL_SECONDS)
          /\ last'.symbol \in DOMAIN cache'
          /\ cache'[last'.symbol] = [data |-> last'.ret, timestamp |-> now']
          /\ last'.ret.success
          /\ last'.ret.symbol = last'.symbol
          /\ last'.ret.current_price = round2(last'.resp.fast.lastPrice)
          /\ DOMAIN cache' = DOMAIN cache \cup {last'.symbol}
          /\ \A k \in DOMAIN cache \ {last'.symbol} : cache'[k] = cache[k] ]_vars

C7_Witness ==
    /\ Called /\ last.outcome = "ok" /\ FoundStale
    /\ last.doneAt > last.at
    /\ cache[last.symbol].data # last.entry.data
    /\ Cardinality(DOMAIN cache) = 2

(* C8: every cache key is the upper-case, trimmed form of a requested        *)
(* symbol, and a fresh entry written for one spelling of a symbol is a hit   *)
(* for every spelling that differs only in case or surrounding whitespace.   *)
C8_KeysNormalized ==
    [][ /\ \A k \in DOMAIN cache' :
              k \in DOMAIN keyOrigin' /\ <<k, keyOrigin'[k]>> \in UpperTrimmed
        /\ (CallStep /\ \E k \in DOMAIN cache :
                          /\ <<keyOrigin[k], last'.raw>> \in OneSymbol
                          /\ now - cache[k].timestamp < CACHE_TTL_SECONDS)
           => /\ last'.fetches = 0
              /\ \E k \in DOMAIN cache :
                    /\ <<keyOrigin[k], last'.raw>> \in OneSymbol
                    /\ last'.ret = cache[k].data ]_vars

C8_Witness ==
    /\ Called /\ last.fetches = 0
    /\ last.origin # last.raw
    /\ SameSymbol(last.origin, last.raw)

-----------------------------------------------------------------------------
(* Vocabulary of the store claims *)

\* slot p's request ends in this step
Completes(p) == req[p].pc # "idle" /\ req'[p].pc = "idle"

OwnerSymbolTaken(user, symbol) ==
    \E a \in assets : a.user_id = user /\ a.symbol = symbol

(* C9: the store never holds two assets of one owner with one normalized     *)
(* symbol, whatever create_asset requests and migration runs interleave; a   *)
(* create_asset for a pair that is already there is rejected with an error   *)
(* and leaves the store unchanged.                                           *)
C9_OneAssetPerOwnerSymbol ==
    /\ [](\A a \in assets, b \in assets :
             (a.user_id = b.user_id /\ a.symbol = b.symbol) => a.id = b.id)
    /\ [][ \A p \in Slots :
             (/\ Completes(p)
              /\ req[p].op = "create_asset"
              /\ OwnerSymbolTaken(req[p].user, req[p].symbol))
             => (reply'.status = 400 /\ assets' = assets
                   /\ transactions' = transactions) ]_vars

(* C10: once delete_asset has answered success for an asset, no transaction  *)
(* that references the asset is in the store, under every interleaving with  *)
(* create_transaction requests for the asset.                                *)
C10_DeleteCascades ==
    \A id \in deletedOk : \A t \in transactions : t.asset_id # id

-----------------------------------------------------------------------------
(* Vocabulary of the valuation claims *)

\* the valuations the page rendered last was given: one for the asset page,
\* one per row for the dashboard
Valuations ==
    IF view.op = "asset_detail" /\ view.found THEN {view.ctx}
    ELSE IF view.op = "dashboard"
    THEN { view.assets[i] : i \in 1..Len(view.assets) }
    ELSE {}

KindOf(t) == IF "transaction_type" \in DOMAIN t THEN t.transaction_type ELSE NoText

LedgerOf(asset_id) == { t \in transactions : t.asset_id = asset_id }

DividendsOf(asset_id) == { t \in LedgerOf(asset_id) : KindOf(t) = DIVIDEND }

TotalDividends(asset_id) ==
    SumOver([t \in DividendsOf(asset_id) |-> t.credit], DividendsOf(asset_id))

(* C11: the total_profit of every valuation is current_price x total_units   *)
(* - total_paid + total_dividends, total_dividends being the sum of credit   *)
(* over the dividends of the asset; an asset with one dividend of 50 and no  *)
(* purchase has 0 units, value 0, profit 50 and is a gain.                   *)
C11_ProfitCountsDividends ==
    \A v \in Valuations :
        /\ v.total_profit =
              round2(mul(v.current_price, v.total_units) - v.total_paid
                       + TotalDividends(v.id))
        /\ (LedgerOf(v.id) = DividendsOf(v.id) /\ TotalDividends(v.id) = 50000)
              => (v.total_units = 0 /\ v.total_value = 0
                    /\ v.total_profit = 50000 /\ v.is_gain)

PurchasesOf(asset_id) == { t \in LedgerOf(asset_id) : KindOf(t) = PURCHASE }

\* the debit when it is stored and positive, else price_per_unit x quantity
CostOf(t) ==
    IF "debit" \in DOMAIN t /\ t.debit > 0 THEN t.debit
    ELSE (t.price_per_unit * t.quantity) \div 1000

(* C12: total_units is the sum of quantity and total_paid the sum of the     *)
(* cost (debit when stored and > 0, else price_per_unit x quantity) over the *)
(* purchases of the asset; an asset without transactions has every          *)
(* aggregate at zero.                                                        *)
C12_AggregateOfPurchases ==
    \A v \in Valuations :
        /\ v.total_units =
              SumOver([t \in PurchasesOf(v.id) |-> t.quantity], PurchasesOf(v.id))
        /\ v.total_paid =
              round2(SumOver([t \in PurchasesOf(v.id) |-> CostOf(t)],
                             PurchasesOf(v.id)))
        /\ LedgerOf(v.id) = {} =>
              (v.total_units = 0 /\ v.total_paid = 0 /\ v.total_value = 0
                 /\ v.total_profit = 0)

C12_Witness ==
    \E v \in Valuations :
        /\ \E t \in PurchasesOf(v.id) : t.debit > 0
        /\ \E t \in PurchasesOf(v.id) : t.debit = 0 /\ t.quantity > 0
        /\ v.total_units = 12000
        /\ v.total_paid = 1105000

\* the sum of F[i] over the rows of a table
RECURSIVE SumRows(_, _)
SumRows(F, n) == IF n = 0 THEN 0 ELSE F[n] + SumRows(F, n - 1)

(* C13: the portfolio totals are the sums of the per-asset fields, the       *)
(* portfolio profit is value - invested + dividends, and the portfolio is a  *)
(* gain exactly when that profit is >= 0.                                    *)
C13_PortfolioTotals ==
    view.op = "dashboard" =>
        LET rows == view.assets
            n == Len(rows)
            invested == SumRows([i \in 1..n |-> rows[i].total_paid], n)
            value == SumRows([i \in 1..n |-> rows[i].total_value], n)
            dividends == SumRows([i \in 1..n |-> TotalDividends(rows[i].id)], n)
            profit == value - invested + dividends
        IN  /\ view.totals.portfolio_invested = round2(invested)
            /\ view.totals.portfolio_value = round2(value)
            /\ view.totals.portfolio_profit = round2(profit)
            /\ view.totals.portfolio_is_gain = (profit >= 0)

\* the records of an asset that are not dividends: purchases and records
\* whose kind is missing or unrecognized
PurchaseLikeOf(asset_id) == { t \in LedgerOf(asset_id) : KindOf(t) # DIVIDEND }

(* C16: a stored record whose kind is missing or unrecognized is aggregated  *)
(* as a purchase: its quantity counts toward total_units and its cost toward *)
(* total_paid.                                                               *)
C16_UnknownKindIsPurchase ==
    \A v \in Valuations :
        /\ v.total_units =
              SumOver([t \in PurchaseLikeOf(v.id) |-> t.quantity], PurchaseLikeOf(v.id))
        /\ v.total_paid =
              round2(SumOver([t \in PurchaseLikeOf(v.id) |-> CostOf(t)],
                             PurchaseLikeOf(v.id)))

\* the valuations of the last page whose quote fetch raised, each with the
\* quote it was built from (the dashboard keeps only the price of the quote)
RaisedValuations ==
    IF view.op = "asset_detail" /\ view.found /\ view.outcome = "raise"
    THEN {view.ctx}
    ELSE IF view.op = "dashboard"
    THEN { view.assets[i] : i \in { n \in 1..Len(view.assets) :
                                      view.outcomes[n] = "raise" } }
    ELSE {}

(* C17: a quote fetch that raises never fails the valuation: the quote has   *)
(* success = false and current_price 0, and the valuation is complete, with  *)
(* current value 0 and a total_profit that depends on the ledger only.       *)
C17_FetchFailureStillValues ==
    /\ (view.op = "asset_detail" /\ view.found /\ view.outcome = "raise") =>
          /\ ~view.stock_info.success
          /\ view.stock_info.current_price = 0
          /\ DOMAIN view.ctx =
                {"id", "symbol", "purchases", "current_price", "total_units",
                 "total_paid", "total_value", "total_profit", "is_gain",
                 "tv_symbol", "profit_per_month", "profit_per_year",
                 "analyst_score"}
          /\ \A row \in view.ctx.purchases : row.current_value = 0
    /\ \A v \in RaisedValuations :
          /\ v.current_price = 0
          /\ v.total_value = 0
          /\ v.total_profit =
                round2(0 - SumOver([t \in PurchasesOf(v.id) |-> CostOf(t)],
                                   PurchasesOf(v.id)))
          /\ v.is_gain = (v.total_profit >= 0)

C17_Witness ==
    /\ view.op = "asset_detail" /\ view.found /\ view.outcome = "raise"
    /\ view.ctx.total_units > 0
    /\ view.ctx.total_value = 0
    /\ view.ctx.total_profit < 0
    /\ view.ctx.profit_per_month # None

\* the ordinals of the usable dates of the purchases of an asset: a date is
\* usable when it is year-month-day in digits and names a day of the calendar
UsableDates(asset_id) ==
    { strptime_date(t.purchase_date).day :
        t \in { u \in PurchasesOf(asset_id) :
                  /\ "purchase_date" \in DOMAIN u
                  /\ strptime_date(u.purchase_date).ok } }

Earliest(S) == CHOOSE d \in S : \A e \in S : d <= e

Annualized(v) == v.profit_per_month # None /\ v.profit_per_year # None

(* C18: profit_per_month and profit_per_year are both null exactly when the  *)
(* asset has no purchase with a usable date or today is less than one day    *)
(* after the earliest purchase date; otherwise both are set, computed from   *)
(* the earliest date, with profit_per_year = 12 x profit_per_month.          *)
C18_Annualization ==
    \A v \in Valuations :
        LET dates == UsableDates(v.id)
            undefined == dates = {} \/ view.today - Earliest(dates) < 1
        IN  /\ undefined => v.profit_per_month = None /\ v.profit_per_year = None
            /\ ~undefined =>
                  /\ Annualized(v)
                  /\ v.profit_per_month.value =
                        round2_ratio(v.total_profit * 761,
                                     25 * (view.today - Earliest(dates)))
                  /\ v.profit_per_year.value = round2(12 * v.profit_per_month.value)

\* two dated purchases, the later one stored first, and a defined figure
C18_Witness ==
    /\ view.op = "asset_detail" /\ view.found
    /\ Cardinality(UsableDates(view.ctx.id)) = 2
    /\ Annualized(view.ctx)
    /\ view.ctx.profit_per_month.value # 0

C18_WitnessNull ==
    /\ view.op = "asset_detail" /\ view.found
    /\ UsableDates(view.ctx.id) # {}
    /\ view.today - Earliest(UsableDates(view.ctx.id)) < 1
    /\ view.ctx.profit_per_month = None

ViewedAsset == CHOOSE a \in assets : a.id = view.ctx.id

(* C23: the display symbol of an asset is "{EXCHANGE}:{SYMBOL}", with        *)
(* "NASDAQ" for the exchange whenever the asset's exchange is absent, empty  *)
(* or "N/A".                                                                 *)
C23_DisplaySymbol ==
    (view.op = "asset_detail" /\ view.found) =>
        LET exchange == upper(strip(ViewedAsset.exchange))
        IN  view.ctx.tv_symbol =
               (IF exchange \in {NoText, NA} THEN NASDAQ ELSE exchange)
                  \o <<":">> \o ViewedAsset.symbol

\* the recommendation label of the quote the last asset page was built from
ViewedLabel == view.stock_info.recommendation_key

(* C24: the analyst score is 1 for strong_buy, 2 for buy, 3 for hold, 4 for  *)
(* underperform and 5 for sell, and 99 for every absent, empty or            *)
(* unrecognized recommendation label.                                        *)
C24_AnalystScore ==
    (view.op = "asset_detail" /\ view.found) =>
        view.ctx.analyst_score =
            CASE ViewedLabel = "strong_buy" -> 1
              [] ViewedLabel = "buy" -> 2
              [] ViewedLabel = "hold" -> 3
              [] ViewedLabel = "underperform" -> 4
              [] ViewedLabel = "sell" -> 5
              [] OTHER -> 99

\* a page scored 99 for a label the map does not hold
C24_Witness ==
    /\ view.op = "asset_detail" /\ view.found
    /\ ViewedLabel = "outperform"
    /\ view.ctx.analyst_score = 99

C24_WitnessKnown ==
    /\ view.op = "asset_detail" /\ view.found
    /\ ViewedLabel = "underperform"
    /\ view.ctx.analyst_score = 4

-----------------------------------------------------------------------------
(* Vocabulary of the claims on overlapping calls *)

\* data is what a fetch for key that did not raise builds
FetchedFor(data, key) ==
    /\ data.success
    /\ data.symbol = key
    /\ \E resp \in Responses : ~resp.raises /\ data = quote_data(key, resp)

\* slot p writes _cache in this step
Stores(p) == req[p].pc = "gq_store" /\ req'[p].pc = "idle"

EntryChanged(k) ==
    /\ k \in DOMAIN cache'
    /\ (k \in DOMAIN cache => cache'[k] # cache[k])

(* C25: under every interleaving of overlapping get_quote requests each      *)
(* cache entry holds the data of a successful fetch made for its own key,    *)
(* the last completed refresh winning, and every returned quote is for the   *)
(* requested symbol: a successfully fetched quote or the zero-quote.         *)
C25_KeyLevelConsistency ==
    /\ [](/\ \A k \in DOMAIN cache : FetchedFor(cache[k].data, k)
          /\ reply.op = "get_stock_info" =>
                \/ FetchedFor(reply.data, normalize_symbol(reply.raw))
                \/ IsZeroQuote(reply.data, normalize_symbol(reply.raw)))
    /\ [][ /\ DOMAIN cache \subseteq DOMAIN cache'
           /\ \A p \in Slots : Stores(p) =>
                 /\ cache'[req[p].symbol].data = req[p].lookup.quote
                 /\ reply'.data = req[p].lookup.quote
           /\ \A k \in DOMAIN cache' : EntryChanged(k) =>
                 \E p \in Slots : Stores(p) /\ req[p].symbol = k
         ]_vars

\* a request has written the entry of a key and returned it while another
\* one, which fetched different data for the same key, is about to write
C25_Witness ==
    /\ reply.op = "get_stock_info"
    /\ \E k \in DOMAIN cache, p \in Slots :
          /\ reply.data = cache[k].data
          /\ req[p].pc = "gq_store"
          /\ req[p].symbol = k
          /\ req[p].lookup.quote # cache[k].data

-----------------------------------------------------------------------------
(* Vocabulary of the ownership claims *)

StoreUnchanged == assets' = assets /\ transactions' = transactions

\* the user the asset of this id was created for (ids are never used again)
OwnerOf(asset_id) == (CHOOSE a \in StoredAssets : a.id = asset_id).user_id

Owns(session, asset_id) ==
    \E a \in assets : a.id = asset_id /\ a.user_id = session

\* what the first step of a request of session for asset_id must keep to
Guarded(op, session, asset_id) ==
    /\ StoreUnchanged
    /\ session \notin Users => reply' = Reply(op, 401, 0)
    /\ (session \in Users /\ ~Owns(session, asset_id)) => reply' = Reply(op, 404, 0)

\* this step may be the first one of a request of handler op: it is refused
\* with a reply of op and no slot changes, or slot p goes on with op
StepOf(p, op) ==
    /\ req[p].pc = "idle"
    /\ \/ req' = req /\ reply'.op = op /\ \A q \in 1..(p - 1) : req[q].pc # "idle"
       \/ req'[p] # req[p] /\ req'[p].op = op

ChangedTransactions == (transactions \ transactions') \cup (transactions' \ transactions)

Kept(d, docs) == {e \in docs : e.id = d.id}

\* a request that this step carries forward
Working(p) == req[p].pc # "idle" /\ req'[p] # req[p]

\* C27: no operation of the API changes a field of a stored asset or
\* transaction: a document that is still stored after a step is the same
\* document; and a transaction leaves the store only by the delete_transaction
\* that names it or by the delete_asset of its asset.
C27_RecordsImmutable ==
    [][ /\ \A a \in assets : Kept(a, assets') \subseteq {a}
        /\ \A t \in transactions : Kept(t, transactions') \subseteq {t}
        /\ \A t \in transactions \ transactions' :
              \E p \in Slots :
                 /\ Working(p)
                 /\ req[p].asset_id = t.asset_id
                 /\ \/ req[p].op = "delete_transaction" /\ req[p].txn_id = t.id
                    \/ req[p].op = "delete_asset"
      ]_vars

\* a transaction was deleted by its delete_transaction, and the asset it
\* belonged to is stored as create_asset made it
C27_Witness ==
    /\ reply.op = "delete_transaction" /\ reply.status = 200
    /\ \A t \in transactions : t.id # reply.id
    /\ \E a \in assets : a.id = 1 /\ a.created_at = 0
    /\ nextTxnId > reply.id

\* the rows the last asset page lists for transaction t
RowsOf(t) == { row \in view.ctx.purchases : row.id = t.id }

\* the row of a purchase follows the three formulas
PurchaseRowOk(t, row) ==
    LET current_value == mul(view.ctx.current_price, t.quantity) IN
    /\ row.total_cost = round2(CostOf(t))
    /\ row.current_value = round2(current_value)
    /\ row.profit = round2(current_value - CostOf(t))

\* the row of a dividend
DividendRowOk(t, row) ==
    /\ row.profit = t.credit
    /\ row.current_value = 0
    /\ row.total_cost = 0
    /\ row.is_gain

\* C28: in the per-transaction display of the asset page every purchase has
\* one row with total_cost = debit or price x quantity, current_value =
\* current price x quantity and profit = current_value - total_cost, and every
\* dividend has one row with profit = credit, current_value = 0, total_cost =
\* 0, flagged as gain.
C28_TransactionRows ==
    (view.op = "asset_detail" /\ view.found) =>
        \A t \in LedgerOf(view.ctx.id) :
            /\ KindOf(t) = PURCHASE =>
                  /\ RowsOf(t) # {}
                  /\ \A row \in RowsOf(t) : PurchaseRowOk(t, row)
            /\ KindOf(t) = DIVIDEND =>
                  /\ RowsOf(t) # {}
                  /\ \A row \in RowsOf(t) : DividendRowOk(t, row)

\* the last call fetched, and only the read of ticker.info raised
InfoOnlyFailed ==
    /\ last.op = "get_stock_info"
    /\ last.fetches > 0
    /\ ~last.resp.raises
    /\ last.resp.infoRaises

\* a quote with the fetched price fields and the defaults of the metadata
PricedWithoutMetadata(data, symbol, fi) ==
    /\ data.success
    /\ data.error = ""
    /\ data.current_price = round2(fi.lastPrice)
    /\ data.previous_close = round2(fi.previousClose)
    /\ data.day_high = round2(fi.dayHigh)
    /\ data.day_low = round2(fi.dayLow)
    /\ data.market_cap = fi.marketCap
    /\ data.name = symbol
    /\ data.sector = NA
    /\ data.recommendation_key = "None"
    /\ data.target_mean_price = 0
    /\ data.number_of_analyst_opinions = 0

\* C29: when the price lookup succeeds and only the metadata lookup raises,
\* get_stock_info returns a quote with success = true, the fetched price
\* fields, name = the symbol, sector "N/A" and null analyst fields; it writes
\* that quote to the cache, fresh for the TTL that follows, and the next call
\* for the key within that time is served that quote without a fetch.
C29_MetadataFailureIsCached ==
    /\ [](InfoOnlyFailed =>
            /\ PricedWithoutMetadata(last.ret, last.symbol, last.resp.fast)
            /\ last.symbol \in DOMAIN cache
            /\ cache[last.symbol] = [data |-> last.ret, timestamp |-> last.doneAt]
            /\ \A t \in last.doneAt..(last.doneAt + CACHE_TTL_SECONDS - 1) :
                  is_fresh(cache, last.symbol, t))
    /\ [][ (/\ InfoOnlyFailed
            /\ last' # last
            /\ last'.symbol = last.symbol
            /\ last'.at < last.doneAt + CACHE_TTL_SECONDS) =>
              /\ last'.outcome = "hit"
              /\ last'.fetches = 0
              /\ last'.ret = last.ret
              /\ cache' = cache
          ]_vars

\* a call is served, some time later, the quote that a fetch without metadata
\* had left in the cache
C29_Witness ==
    /\ last.outcome = "hit"
    /\ last.at > last.entry.timestamp
    /\ PricedWithoutMetadata(last.ret, last.symbol, FastQuoted)

-----------------------------------------------------------------------------
(* Vocabulary of the create_asset claims *)

\* slot p calls lookup_symbol in this step
LooksUp(p) == ~req[p].lookup.called /\ req'[p].lookup.called

\* slot p runs insert_one on db.assets in this step
InsertsAsset(p) == req[p].pc = "ca_insert" /\ req'[p] # req[p]

Created == assets' \ assets

\* a field of the body the caller supplied: text is left after trimming
Supplied(text) == strip(text) # NoText

(* C19: lookup_symbol is absent whenever the quote failed or its price is    *)
(* not > 0, and create_asset then still creates the asset, with the bare     *)
(* symbol as name and "N/A" as exchange for the fields the caller left out.  *)
C19_AbsentLookupFallsBack ==
    [][ \A p \in Slots :
          /\ LooksUp(p) =>
                LET q == req'[p].lookup.quote IN
                /\ (~q.success \/ ~(q.current_price > 0)) => ~req'[p].lookup.info.found
                /\ req'[p].pc = "ca_find"
          /\ (InsertsAsset(p) /\ req[p].lookup.called /\ ~req[p].lookup.info.found) =>
                /\ reply'.status = 200
                /\ \E a \in Created :
                      /\ Created = {a}
                      /\ a.id = reply'.id
                      /\ a.symbol = req[p].symbol
                      /\ a.name = IF Supplied(req[p].body.name)
                                  THEN req[p].name ELSE req[p].symbol
                      /\ a.exchange = IF Supplied(req[p].body.exchange)
                                      THEN req[p].exchange ELSE NA
      ]_vars

\* an asset created after a failed lookup, holding both fallbacks
C19_Witness ==
    /\ reply.op = "create_asset" /\ reply.status = 200
    /\ \E a \in assets :
          /\ a.id = reply.id
          /\ a.name = a.symbol
          /\ a.exchange = NA
    /\ \E a \in assets : a.name = <<"M", "y">> /\ a.exchange = NA

\* what create_asset puts in a field the caller left out
Filled(p, field, fallback) ==
    IF req[p].lookup.called /\ req[p].lookup.info.found
    THEN req[p].lookup.info[field]
    ELSE fallback

(* C20 as stated: a non-empty name or exchange of the body is stored exactly *)
(* as supplied, whatever the lookup returns; the lookup result only fills a  *)
(* field the caller left empty.                                              *)
C20_StoredExactlyAsSupplied ==
    [][ \A p \in Slots : InsertsAsset(p) =>
          \A a \in Created :
             /\ req[p].body.name # NoText => a.name = req[p].body.name
             /\ req[p].body.exchange # NoText => a.exchange = req[p].body.exchange
      ]_vars

(* C20 amended: a name or exchange of the body that is not empty after       *)
(* trimming is stored trimmed, whatever the lookup returns; the lookup       *)
(* result (or the fallback) only fills a field that is empty after trimming. *)
C20_SuppliedStoredTrimmed ==
    [][ \A p \in Slots : InsertsAsset(p) =>
          \E a \in Created :
             /\ Created = {a}
             /\ a.name = IF Supplied(req[p].body.name)
                         THEN strip(req[p].body.name)
                         ELSE Filled(p, "name", req[p].symbol)
             /\ a.exchange = IF Supplied(req[p].body.exchange)
                             THEN strip(req[p].body.exchange)
                             ELSE Filled(p, "exchange", NA)
      ]_vars

\* an asset holding the caller's name next to the exchange the lookup found
C20_Witness ==
    /\ reply.op = "create_asset" /\ reply.status = 200
    /\ \E a \in assets :
          /\ a.id = reply.id
          /\ a.name = <<"M", "y">>
          /\ a.exchange \notin {NA, NoText, <<"n", "y", "s", "e">>}

-----------------------------------------------------------------------------
(* Vocabulary of the ledger claims *)

\* the documents this step adds to db.transactions
Stored == transactions' \ transactions

\* slot p's create_transaction runs its insert_one in this step
InsertsTransaction(p) == req[p].pc = "ct_insert" /\ req'[p].pc = "idle"

(* C14: every purchase create_transaction stores has price_per_unit > 0,     *)
(* quantity > 0, fees >= 0, debit = price_per_unit x quantity + fees rounded *)
(* to 2 decimals and credit = 0; a request outside these bounds stores       *)
(* nothing.                                                                  *)
C14_PurchaseWithinBounds ==
    [][ \A p \in Slots : InsertsTransaction(p) =>
          \A d \in Stored : d.transaction_type = PURCHASE =>
              /\ d.price_per_unit > 0
              /\ d.quantity > 0
              /\ d.fees >= 0
              /\ d.debit = round2((d.price_per_unit * d.quantity) \div 1000 + d.fees)
              /\ d.credit = 0 ]_vars

(* C15: every dividend in the store, written by create_transaction or by the *)
(* migration, has credit > 0 and price_per_unit = quantity = fees = debit    *)
(* = 0.                                                                      *)
C15_DividendFields ==
    \A t \in transactions : t.transaction_type = DIVIDEND =>
        /\ t.credit > 0
        /\ t.price_per_unit = 0 /\ t.quantity = 0
        /\ t.fees = 0 /\ t.debit = 0

====
